---- MODULE Spec2Model ----
(***************************************************************************)
(* QuestFlow plan optimizer (plan-optimizer.ts, ev-calculator.ts,          *)
(* queue.ts): optimizePlan with its greedy loop, updatePlanProgress and    *)
(* recalculatePlan, as a state machine (SpecOptimizer, Spec); the EV       *)
(* calculator's functions called on their own (SpecEV); the hook           *)
(* useDebouncedPlanGeneration with its debounce timer, abort controller    *)
(* and generations in flight (SpecHook); and the StorageManager's stored   *)
(* plan list (SpecStorage).                                                *)
(*                                                                         *)
(* Numbers.  The program computes on IEEE doubles.  The model computes the *)
(* same expressions exactly: win rates are tenths (6 is 0.6), quest        *)
(* progress is counted in hundredths (60 is 0.6 of a unit), queue          *)
(* multipliers are tenths (25 is 2.5).  Expected values are integers in    *)
(* units of 10^-8 reward units, which is exact for win rates in tenths and *)
(* reward arrays of up to 8 entries; a priority is held as an integer      *)
(* multiple of the priority the program computes (see QueueOption).  Both  *)
(* exceed 32 bits, so they are arbitrary-size integers (BigAdd, SAdd).     *)
(* The inputs are chosen so that no quotient the program rounds            *)
(* (Math.ceil) lies within rounding error of an integer.                   *)
(***************************************************************************)
EXTENDS Integers, Sequences, FiniteSets, TLC

\* ------------------------------------------------------------------ bounds
MaxQuests == 2      \* longest quest list a caller passes
MaxRecalcs == 1     \* recalculatePlan calls in one session
MaxUpdates == 3     \* updatePlanProgress calls on one plan
MaxChanges == 2     \* input changes of the mounted hook
MaxGenerations == 3 \* generatePlan calls of the mounted hook
AdvanceMs == 150    \* the step, in ms, by which the hook's clock advances
MaxSaves == 3       \* calls that write the stored plan list

\* ------------------------------------------------- arbitrary-size integers
\* A natural number is a little-endian sequence of limbs in base 10000,
\* without leading zero limbs; zero is the empty sequence.
Base == 100 * 100

RECURSIVE BigNorm(_)
BigNorm(a) ==
  IF a = <<>> THEN <<>>
  ELSE IF a[Len(a)] = 0 THEN BigNorm(SubSeq(a, 1, Len(a) - 1))
  ELSE a

RECURSIVE BigOfNat(_)
BigOfNat(n) == IF n = 0 THEN <<>> ELSE <<n % Base>> \o BigOfNat(n \div Base)

RECURSIVE BigAddC(_, _, _)
BigAddC(a, b, c) ==
  IF a = <<>> /\ b = <<>> THEN (IF c = 0 THEN <<>> ELSE <<c>>)
  ELSE LET x == (IF a = <<>> THEN 0 ELSE Head(a))
                + (IF b = <<>> THEN 0 ELSE Head(b)) + c
       IN <<x % Base>> \o BigAddC(IF a = <<>> THEN <<>> ELSE Tail(a),
                                  IF b = <<>> THEN <<>> ELSE Tail(b),
                                  x \div Base)

BigAdd(a, b) == BigAddC(a, b, 0)

\* a - b for a >= b
RECURSIVE BigSubC(_, _, _)
BigSubC(a, b, c) ==
  IF a = <<>> THEN <<>>
  ELSE LET x == Head(a) - (IF b = <<>> THEN 0 ELSE Head(b)) - c
       IN <<x % Base>> \o BigSubC(Tail(a),
                                  IF b = <<>> THEN <<>> ELSE Tail(b),
                                  IF x < 0 THEN 1 ELSE 0)

BigSub(a, b) == BigNorm(BigSubC(a, b, 0))

\* a * k for a small factor 0 <= k <= 200000 (limb * k fits 32 bits)
RECURSIVE BigMulLimbC(_, _, _)
BigMulLimbC(a, k, c) ==
  IF a = <<>> THEN (IF c = 0 THEN <<>> ELSE <<c>>)
  ELSE LET x == Head(a) * k + c
       IN <<x % Base>> \o BigMulLimbC(Tail(a), k, x \div Base)

BigMulLimb(a, k) == IF k = 0 THEN <<>> ELSE BigMulLimbC(a, k, 0)

\* -1, 0, 1 as a < b, a = b, a > b
RECURSIVE BigCmpFrom(_, _, _)
BigCmpFrom(a, b, i) ==
  IF i = 0 THEN 0
  ELSE IF a[i] < b[i] THEN -1
  ELSE IF a[i] > b[i] THEN 1
  ELSE BigCmpFrom(a, b, i - 1)

BigCmp(a, b) ==
  IF Len(a) < Len(b) THEN -1
  ELSE IF Len(a) > Len(b) THEN 1
  ELSE BigCmpFrom(a, b, Len(a))

\* Signed integers: [neg, mag], zero is never negative.
SInt(n) == [neg |-> n < 0, mag |-> BigOfNat(IF n < 0 THEN 0 - n ELSE n)]

SAdd(x, y) ==
  IF x.neg = y.neg THEN [neg |-> x.neg, mag |-> BigAdd(x.mag, y.mag)]
  ELSE LET c == BigCmp(x.mag, y.mag)
       IN IF c = 0 THEN [neg |-> FALSE, mag |-> <<>>]
          ELSE IF c > 0 THEN [neg |-> x.neg, mag |-> BigSub(x.mag, y.mag)]
          ELSE [neg |-> y.neg, mag |-> BigSub(y.mag, x.mag)]

\* x * k for an integer 0 <= k <= 200000
SMulSmall(x, k) ==
  IF k = 0 THEN [neg |-> FALSE, mag |-> <<>>]
  ELSE [neg |-> x.neg, mag |-> BigMulLimb(x.mag, k)]

SCmp(x, y) ==
  IF x.neg /\ ~y.neg THEN -1
  ELSE IF ~x.neg /\ y.neg THEN 1
  ELSE IF x.neg THEN BigCmp(y.mag, x.mag)
  ELSE BigCmp(x.mag, y.mag)

\* ------------------------------------------------------------ reward model
QuestTypes == {"win", "cast", "play_colors"}

\* Object.values(QueueType), in declaration order
AllQueueTypes ==
  <<"standard_bo1", "standard_bo3", "historic_bo1", "historic_bo3",
    "quick_draft", "premier_draft", "traditional_draft", "midweek_magic",
    "alchemy_bo1", "explorer_bo1">>

QueueTypeSet == {AllQueueTypes[i] : i \in DOMAIN AllQueueTypes}

\* questMultiplier is in tenths; an absent gem or pack array is <<>>.
QUEUE_REWARDS ==
  [q \in QueueTypeSet |->
    CASE q = "standard_bo1" ->
           [entryFee |-> 0, winRewards |-> <<0, 25, 50, 100, 150, 200, 250>>,
            gemRewards |-> <<>>, packRewards |-> <<>>, averageGameLength |-> 8,
            questMultiplier |-> [win |-> 10, cast |-> 10, play_colors |-> 10]]
      [] q = "standard_bo3" ->
           [entryFee |-> 0, winRewards |-> <<0, 100, 200, 300>>,
            gemRewards |-> <<>>, packRewards |-> <<>>, averageGameLength |-> 20,
            questMultiplier |-> [win |-> 20, cast |-> 25, play_colors |-> 25]]
      [] q = "historic_bo1" ->
           [entryFee |-> 0, winRewards |-> <<0, 25, 50, 100, 150, 200, 250>>,
            gemRewards |-> <<>>, packRewards |-> <<>>, averageGameLength |-> 7,
            questMultiplier |-> [win |-> 10, cast |-> 10, play_colors |-> 10]]
      [] q = "historic_bo3" ->
           [entryFee |-> 0, winRewards |-> <<0, 100, 200, 300>>,
            gemRewards |-> <<>>, packRewards |-> <<>>, averageGameLength |-> 18,
            questMultiplier |-> [win |-> 20, cast |-> 25, play_colors |-> 25]]
      [] q = "quick_draft" ->
           [entryFee |-> 5000,
            winRewards |-> <<50, 100, 200, 300, 450, 650, 950, 1200>>,
            gemRewards |-> <<0, 50, 100, 200, 300, 450, 650, 950>>,
            packRewards |-> <<1, 1, 2, 2, 3, 4, 5, 6>>, averageGameLength |-> 12,
            questMultiplier |-> [win |-> 10, cast |-> 8, play_colors |-> 12]]
      [] q = "premier_draft" ->
           [entryFee |-> 10000,
            winRewards |-> <<0, 1000, 1500, 1700, 1900, 2100, 2200, 2500>>,
            gemRewards |-> <<50, 250, 400, 600, 800, 1000, 1200, 1600>>,
            packRewards |-> <<1, 1, 2, 2, 3, 4, 5, 6>>, averageGameLength |-> 15,
            questMultiplier |-> [win |-> 10, cast |-> 8, play_colors |-> 12]]
      [] q = "traditional_draft" ->
           [entryFee |-> 10000, winRewards |-> <<0, 3000, 6000>>,
            gemRewards |-> <<0, 1000, 3000>>, packRewards |-> <<1, 4, 6>>,
            averageGameLength |-> 35,
            questMultiplier |-> [win |-> 20, cast |-> 25, play_colors |-> 25]]
      [] q = "midweek_magic" ->
           [entryFee |-> 0, winRewards |-> <<0, 250, 400, 500>>,
            gemRewards |-> <<>>, packRewards |-> <<>>, averageGameLength |-> 10,
            questMultiplier |-> [win |-> 10, cast |-> 15, play_colors |-> 15]]
      [] q = "alchemy_bo1" ->
           [entryFee |-> 0, winRewards |-> <<0, 25, 50, 100, 150, 200, 250>>,
            gemRewards |-> <<>>, packRewards |-> <<>>, averageGameLength |-> 9,
            questMultiplier |-> [win |-> 10, cast |-> 12, play_colors |-> 10]]
      [] q = "explorer_bo1" ->
           [entryFee |-> 0, winRewards |-> <<0, 25, 50, 100, 150, 200, 250>>,
            gemRewards |-> <<>>, packRewards |-> <<>>, averageGameLength |-> 8,
            questMultiplier |-> [win |-> 10, cast |-> 10, play_colors |-> 10]]]

\* QUEUE_REWARDS[queueType] || QUEUE_REWARDS[STANDARD_BO1]
getQueueRewardsWithFallback(queueType) ==
  IF queueType \in QueueTypeSet THEN QUEUE_REWARDS[queueType]
  ELSE QUEUE_REWARDS["standard_bo1"]

\* ----------------------------------------------------------- EV calculator
RECURSIVE Pow(_, _)
Pow(b, e) == IF e = 0 THEN 1 ELSE b * Pow(b, e - 1)

Min(a, b) == IF a <= b THEN a ELSE b
Max(a, b) == IF a >= b THEN a ELSE b
CeilDiv(a, b) == (a + b - 1) \div b

\* Expected values are integers in units of 10^-8 reward units.
EVScale == Pow(10, 8)

\* Faulty variant: the last index is "that many wins, then a loss" as well
WinProbabilityThenLoss(wins, n, w) ==
  IF wins = 0 THEN (10 - w) * Pow(10, 7)
  ELSE Pow(w, wins) * (10 - w) * Pow(10, 7 - wins)

\* Probability of ending on `wins` wins for an array of n <= 8 rewards, as a
\* numerator over EVScale (winRate is w/10).
WinProbability(wins, n, w) ==
  IF wins = 0 THEN (10 - w) * Pow(10, 7)
  ELSE IF wins = n - 1 THEN Pow(w, wins) * Pow(10, 8 - wins)
  ELSE Pow(w, wins) * (10 - w) * Pow(10, 7 - wins)

RECURSIVE ExpectedSum(_, _, _)
ExpectedSum(rewards, w, wins) ==
  IF wins >= Len(rewards) THEN <<>>
  ELSE BigAdd(BigMulLimb(BigOfNat(WinProbability(wins, Len(rewards), w)),
                         rewards[wins + 1]),
              ExpectedSum(rewards, w, wins + 1))

calculateExpectedReward(rewards, w) ==
  IF Len(rewards) = 0 THEN <<>>
  ELSE IF w = 0 THEN BigMulLimb(BigOfNat(EVScale), rewards[1])
  ELSE IF w = 10 THEN BigMulLimb(BigOfNat(EVScale), rewards[Len(rewards)])
  ELSE ExpectedSum(rewards, w, 0)

\* evPerMinute (netValue / averageGameLength) is not an integer in these
\* units and no caller modelled here reads it.
calculateQueueEV(queueType, w) ==
  LET rewards == getQueueRewardsWithFallback(queueType)
      expectedGold == calculateExpectedReward(rewards.winRewards, w)
      expectedGems == calculateExpectedReward(rewards.gemRewards, w)
      expectedPacks == calculateExpectedReward(rewards.packRewards, w)
      goldEquivalent ==
        BigAdd(BigAdd(expectedGold, BigMulLimb(expectedGems, 5)),
               BigMulLimb(expectedPacks, 1000))
      netValue ==
        SAdd([neg |-> FALSE, mag |-> goldEquivalent],
             [neg |-> rewards.entryFee > 0,
              mag |-> BigMulLimb(BigOfNat(EVScale), rewards.entryFee)])
  IN [expectedValue |-> goldEquivalent,
      expectedGold |-> expectedGold,
      expectedGems |-> expectedGems,
      expectedPacks |-> expectedPacks,
      entryCost |-> rewards.entryFee,
      netValue |-> netValue]

\* calculateQueueEV depends on the queue and the win rate only; the values
\* are tabulated once.
QueueEVTable ==
  [q \in QueueTypeSet |-> [w \in 0..10 |-> calculateQueueEV(q, w)]]

\* Stands for the double Infinity of "no progress is ever made".
Infinity == Pow(10, 9)

\* progressPerGame of calculateQuestProgressRate, in hundredths of a quest
\* unit: the switch on quest.type, then Math.min with quest.remaining
ProgressPerGame(quest, queueType, w) ==
  Min(CASE quest.type = "win" ->
             w * getQueueRewardsWithFallback(queueType).questMultiplier.win
        [] quest.type = "cast" ->
             10 * 10
             * getQueueRewardsWithFallback(queueType).questMultiplier.cast
        [] quest.type = "play_colors" ->
             10 * getQueueRewardsWithFallback(queueType)
                    .questMultiplier.play_colors,
      quest.remaining * 100)

\* Faulty variant: the games to complete are rounded down, not up
calculateQuestProgressRateFloor(quest, queueType, w) ==
  [progressPerGame |-> ProgressPerGame(quest, queueType, w),
   estimatedGamesToComplete |->
     IF quest.remaining = 0 THEN 0
     ELSE (quest.remaining * 100) \div ProgressPerGame(quest, queueType, w),
   estimatedMinutesToComplete |->
     IF quest.remaining = 0 THEN 0
     ELSE ((quest.remaining * 100) \div ProgressPerGame(quest, queueType, w))
          * getQueueRewardsWithFallback(queueType).averageGameLength]

\* Progress is in hundredths of a quest unit.
calculateQuestProgressRate(quest, queueType, w) ==
  LET rewards == getQueueRewardsWithFallback(queueType)
      progressPerGame == ProgressPerGame(quest, queueType, w)
      estimatedGamesToComplete ==
        IF quest.remaining = 0 THEN 0
        ELSE IF progressPerGame > 0
             THEN CeilDiv(quest.remaining * 100, progressPerGame)
        ELSE Infinity
      estimatedMinutesToComplete ==
        IF quest.remaining = 0 THEN 0
        ELSE IF estimatedGamesToComplete = Infinity THEN Infinity
        ELSE estimatedGamesToComplete * rewards.averageGameLength
  IN [progressPerGame |-> progressPerGame,
      estimatedGamesToComplete |-> estimatedGamesToComplete,
      estimatedMinutesToComplete |-> estimatedMinutesToComplete]

\* Faulty variant: compares the games needed, not the minutes, with the budget
estimateQuestCompletionByGames(quest, queueType, w, timeBudgetMinutes) ==
  [canComplete |->
     calculateQuestProgressRate(quest, queueType, w).estimatedGamesToComplete
       <= timeBudgetMinutes,
   estimatedMinutes |->
     calculateQuestProgressRate(quest, queueType, w).estimatedMinutesToComplete,
   estimatedGames |->
     calculateQuestProgressRate(quest, queueType, w).estimatedGamesToComplete,
   progressPerGame |->
     calculateQuestProgressRate(quest, queueType, w).progressPerGame,
   timeRemaining |->
     Max(0, timeBudgetMinutes
            - calculateQuestProgressRate(quest, queueType, w).estimatedMinutesToComplete)]

estimateQuestCompletion(quest, queueType, w, timeBudgetMinutes) ==
  LET progressResult == calculateQuestProgressRate(quest, queueType, w)
  IN [canComplete |->
        progressResult.estimatedMinutesToComplete <= timeBudgetMinutes,
      estimatedMinutes |-> progressResult.estimatedMinutesToComplete,
      estimatedGames |-> progressResult.estimatedGamesToComplete,
      progressPerGame |-> progressResult.progressPerGame,
      timeRemaining |->
        Max(0, timeBudgetMinutes - progressResult.estimatedMinutesToComplete)]

\* ---------------------------------------------------------- plan optimizer
\* The settings used when the caller passes none, and createDefaultSettings()
DefaultPreferredQueues == <<"standard_bo1", "historic_bo1", "quick_draft">>

NoSettings == [defined |-> FALSE, preferredQueues |-> <<>>]

\* const userSettings = settings || {...}
UserSettings(st) ==
  IF st.defined THEN st
  ELSE [defined |-> TRUE, preferredQueues |-> DefaultPreferredQueues]

AvailableQueues(preferredQueues) ==
  IF Len(preferredQueues) > 0 THEN preferredQueues ELSE AllQueueTypes

\* The absent option (null)
NoOption ==
  [queueType |-> "none", questProgress |-> <<>>, estimatedMinutes |-> 0,
   estimatedGames |-> 0, canCompleteInBudget |-> FALSE,
   urgencyMultiplier |-> 2, priority |-> SInt(0)]

\* Faulty variant: the lookup never finds the quest
TrackedAbsent(questProgress, id) == 0

\* questProgress.get(id) || 0
Tracked(questProgress, id) ==
  IF id \in DOMAIN questProgress THEN questProgress[id] ELSE 0

\* What evaluateQueueOption pushes for one quest that is still open
ProgressEntry(quest, remaining, progressResult) ==
  IF progressResult.progressPerGame > 0
  THEN <<[questId |-> quest.id,
          progressAmount |-> Min(progressResult.progressPerGame, remaining),
          estimatedGamesToComplete |-> progressResult.estimatedGamesToComplete,
          expiresInDays |-> quest.expiresInDays]>>
  ELSE <<>>

\* The entries evaluateQueueOption pushes for quests i..Len(quests)
RECURSIVE QuestProgressData(_, _, _, _, _, _)
QuestProgressData(queueType, quests, questProgress, completedQuests, w, i) ==
  IF i > Len(quests) THEN <<>>
  ELSE (IF \/ quests[i].id \in completedQuests
           \/ Tracked(questProgress, quests[i].id) <= 0
        THEN <<>>
        ELSE ProgressEntry(quests[i], Tracked(questProgress, quests[i].id),
                           calculateQuestProgressRate(quests[i], queueType, w)))
       \o QuestProgressData(queueType, quests, questProgress,
                            completedQuests, w, i + 1)

\* Priorities.  Within one iteration every option's priority is compared
\* with the others'.  The model holds   priority * 2 * EVScale * MinutesLcm
\* * R   where R is the product of the tracked remaining of the quests still
\* open in this iteration: an integer, and the same positive factor for
\* every option of the iteration, so the comparisons are the program's.
RECURSIVE GCD(_, _)
GCD(a, b) == IF b = 0 THEN a ELSE GCD(b, a % b)

RECURSIVE LCMOf(_)
LCMOf(S) ==
  IF S = {} THEN 1
  ELSE LET x == CHOOSE y \in S : TRUE
           r == LCMOf(S \ {x})
       IN (x \div GCD(x, r)) * r

\* Every estimatedMinutes a step can have divides MinutesLcm
MinutesLcm ==
  LCMOf({g * QUEUE_REWARDS[q].averageGameLength : g \in 1..3, q \in QueueTypeSet})

OpenQuests(quests, questProgress, completedQuests) ==
  {quests[i].id : i \in {j \in DOMAIN quests :
      /\ quests[j].id \notin completedQuests
      /\ Tracked(questProgress, quests[j].id) > 0}}

\* x times the tracked remaining of every quest in ids
RECURSIVE TimesRemaining(_, _, _)
TimesRemaining(x, ids, questProgress) ==
  IF ids = {} THEN x
  ELSE LET id == CHOOSE y \in ids : TRUE
       IN TimesRemaining(SMulSmall(x, questProgress[id]), ids \ {id},
                         questProgress)

\* totalQuestBonus * R: 500 * progressAmount / remaining, summed
RECURSIVE TotalQuestBonus(_, _, _, _)
TotalQuestBonus(data, open, questProgress, i) ==
  IF i > Len(data) THEN SInt(0)
  ELSE SAdd(TimesRemaining(SInt(500 * data[i].progressAmount),
                           open \ {data[i].questId}, questProgress),
            TotalQuestBonus(data, open, questProgress, i + 1))

\* Faulty variant: only a quest that three games of the queue finish counts
\* as urgent
UrgencyMultiplierIfFinishable(data) ==
  IF \E i \in DOMAIN data :
       data[i].expiresInDays <= 1 /\ data[i].estimatedGamesToComplete <= 3
  THEN 4
  ELSE IF \E i \in DOMAIN data :
            data[i].expiresInDays <= 2 /\ data[i].estimatedGamesToComplete <= 3
  THEN 3
  ELSE 2

\* Math.max over the contributing quests, starting from 1; in halves
UrgencyMultiplier(data) ==
  IF \E i \in DOMAIN data : data[i].expiresInDays <= 1 THEN 4
  ELSE IF \E i \in DOMAIN data : data[i].expiresInDays <= 2 THEN 3
  ELSE 2

\* Faulty variant: no upper bound of three games
EstimatedGamesUncapped(remainingTime, averageGameLength) ==
  Max(1, CeilDiv(remainingTime, 2 * averageGameLength))

\* Faulty variant: one game per step, whatever time remains
EstimatedGamesSingle(remainingTime, averageGameLength) == 1

EstimatedGames(remainingTime, averageGameLength) ==
  Max(1, Min(3, CeilDiv(remainingTime, 2 * averageGameLength)))

\* evaluateQueueOption once the quest loop has produced questProgressData
QueueOption(queueType, questProgressData, open, questProgress, estimatedGames, estimatedMinutes, remainingTime, w) ==
  IF estimatedMinutes > remainingTime THEN NoOption
  ELSE [queueType |-> queueType,
        questProgress |-> questProgressData,
        estimatedMinutes |-> estimatedMinutes,
        estimatedGames |-> estimatedGames,
        canCompleteInBudget |-> estimatedMinutes <= remainingTime,
        urgencyMultiplier |-> UrgencyMultiplier(questProgressData),
        \* totalEV = netValue * estimatedGames + totalQuestBonus, in units
        \* of 1/(EVScale * R); evPerMinute = totalEV / estimatedMinutes, in
        \* units of 1/(EVScale * R * MinutesLcm); priority = evPerMinute *
        \* urgencyMultiplier, in units of 1/(2 * EVScale * R * MinutesLcm)
        priority |->
          SMulSmall(
            SMulSmall(
              SAdd(TimesRemaining(
                     SMulSmall(QueueEVTable[queueType][w].netValue,
                               estimatedGames),
                     open, questProgress),
                   SMulSmall(SMulSmall(
                     TotalQuestBonus(questProgressData, open, questProgress, 1),
                     Pow(10, 4)), Pow(10, 4))),
              MinutesLcm \div estimatedMinutes),
            UrgencyMultiplier(questProgressData))]

evaluateQueueOption(queueType, quests, questProgress, completedQuests, remainingTime, w) ==
  QueueOption(queueType,
              QuestProgressData(queueType, quests, questProgress,
                                completedQuests, w, 1),
              OpenQuests(quests, questProgress, completedQuests),
              questProgress,
              EstimatedGames(remainingTime,
                getQueueRewardsWithFallback(queueType).averageGameLength),
              EstimatedGames(remainingTime,
                getQueueRewardsWithFallback(queueType).averageGameLength)
                * getQueueRewardsWithFallback(queueType).averageGameLength,
              remainingTime, w)

\* option.priority > bestPriority, where bestPriority starts at -Infinity
Beats(option, bestOption) ==
  \/ bestOption.queueType = "none"
  \/ SCmp(option.priority, bestOption.priority) > 0

\* if (option && option.canCompleteInBudget && option.priority > bestPriority)
Better(option, bestOption) ==
  IF /\ option.queueType # "none"
     /\ option.canCompleteInBudget
     /\ Beats(option, bestOption)
  THEN option ELSE bestOption

\* The for loop over availableQueues from position i, bestOption so far
RECURSIVE BestOver(_, _, _, _, _, _, _, _)
BestOver(availableQueues, i, bestOption, quests, questProgress, completedQuests, remainingTime, w) ==
  IF i > Len(availableQueues) THEN bestOption
  ELSE BestOver(availableQueues, i + 1,
                Better(evaluateQueueOption(availableQueues[i], quests,
                                           questProgress, completedQuests,
                                           remainingTime, w),
                       bestOption),
                quests, questProgress, completedQuests, remainingTime, w)

findBestQueueOption(quests, questProgress, completedQuests, remainingTime, w, st) ==
  BestOver(AvailableQueues(st.preferredQueues), 1, NoOption, quests,
           questProgress, completedQuests, remainingTime, w)

\* Faulty variant: the step reports the minutes of a single game
createPlanStepOneGame(option, questProgress, id) ==
  [id |-> id,
   queue |-> option.queueType,
   targetGames |-> option.estimatedGames,
   estimatedMinutes |->
     getQueueRewardsWithFallback(option.queueType).averageGameLength,
   questProgress |->
     [k \in DOMAIN option.questProgress |->
        [questId |-> option.questProgress[k].questId,
         progressAmount |->
           Min(option.questProgress[k].progressAmount * option.estimatedGames,
               Tracked(questProgress, option.questProgress[k].questId))]],
   completed |-> FALSE]

\* Faulty variant: books 8 minutes for every game (the default
\* minutesPerGame) instead of the option's estimatedMinutes
createPlanStepFlatMinutes(option, questProgress, id) ==
  [id |-> id,
   queue |-> option.queueType,
   targetGames |-> option.estimatedGames,
   estimatedMinutes |-> option.estimatedGames * 8,
   questProgress |->
     [k \in DOMAIN option.questProgress |->
        [questId |-> option.questProgress[k].questId,
         progressAmount |->
           Min(option.questProgress[k].progressAmount * option.estimatedGames,
               IF option.questProgress[k].questId \in DOMAIN questProgress
               THEN questProgress[option.questProgress[k].questId] ELSE 0)]],
   completed |-> FALSE]

createPlanStep(option, questProgress, id) ==
  LET rewards == getQueueRewardsWithFallback(option.queueType)
      estimatedGames ==
        CeilDiv(option.estimatedMinutes, rewards.averageGameLength)
  IN [id |-> id,
      queue |-> option.queueType,
      targetGames |-> estimatedGames,
      estimatedMinutes |-> option.estimatedMinutes,
      questProgress |->
        [k \in DOMAIN option.questProgress |->
           [questId |-> option.questProgress[k].questId,
            progressAmount |->
              Min(option.questProgress[k].progressAmount * estimatedGames,
                  Tracked(questProgress, option.questProgress[k].questId))]],
      completed |-> FALSE]

\* Faulty variant: every active quest counts as feasible
canQuestBeCompletedAlways(quest, tb, w, preferredQueues) == TRUE

canQuestBeCompletedInTime(quest, tb, w, preferredQueues) ==
  LET queuesToCheck == AvailableQueues(preferredQueues)
  IN \E k \in DOMAIN queuesToCheck :
       estimateQuestCompletion(quest, queuesToCheck[k], w, tb).canComplete

\* quests.filter(pred), for pred a set of indexes
RECURSIVE FilterSeq(_, _, _)
FilterSeq(seq, keep, i) ==
  IF i > Len(seq) THEN <<>>
  ELSE (IF i \in keep THEN <<seq[i]>> ELSE <<>>) \o FilterSeq(seq, keep, i + 1)

\* Faulty variant: finished quests are not filtered out
ActiveQuestsUnfiltered(qs) == qs

ActiveQuests(qs) ==
  FilterSeq(qs, {i \in DOMAIN qs : qs[i].remaining > 0}, 1)

FeasibleQuests(activeQuests, tb, w, st) ==
  FilterSeq(activeQuests,
            {i \in DOMAIN activeQuests :
               canQuestBeCompletedInTime(activeQuests[i], tb, w,
                                         st.preferredQueues)}, 1)

\* Faulty variant: the schema without the winRate range
ValidationIssuesNoWinRate(qs, tb, w) ==
  (IF \E i \in DOMAIN qs : qs[i].remaining < 0 \/ qs[i].expiresInDays < 0
   THEN {"quests"} ELSE {})
  \cup (IF tb < 15 \/ tb > 180 THEN {"timeBudget"} ELSE {})

\* OptimizationInputSchema: the fields with an issue
ValidationIssues(qs, tb, w) ==
  (IF \E i \in DOMAIN qs : qs[i].remaining < 0 \/ qs[i].expiresInDays < 0
   THEN {"quests"} ELSE {})
  \cup (IF tb < 15 \/ tb > 180 THEN {"timeBudget"} ELSE {})
  \cup (IF w < 3 \/ w > 8 THEN {"winRate"} ELSE {})

RECURSIVE SumMinutes(_, _)
SumMinutes(stepSeq, i) ==
  IF i > Len(stepSeq) THEN 0
  ELSE stepSeq[i].estimatedMinutes + SumMinutes(stepSeq, i + 1)

Warning(kind, n) == [kind |-> kind, n |-> n]

generateWarnings(allQuests, feasible, p) ==
  LET infeasible ==
        {i \in DOMAIN allQuests :
           /\ ~\E k \in DOMAIN feasible : feasible[k].id = allQuests[i].id
           /\ allQuests[i].remaining > 0}
      expiring ==
        {i \in DOMAIN allQuests :
           allQuests[i].expiresInDays <= 1 /\ allQuests[i].remaining > 0}
      unusedTime == p.timeBudget - p.totalEstimatedMinutes
  IN (IF infeasible # {}
      THEN <<Warning("cannot be completed within time budget",
                     Cardinality(infeasible))>> ELSE <<>>)
     \o (IF expiring # {}
         THEN <<Warning("expire within 24 hours", Cardinality(expiring))>>
         ELSE <<>>)
     \o (IF unusedTime > 15
         THEN <<Warning("minutes of unused time", unusedTime)>> ELSE <<>>)

\* ------------------------------------------------------------------ inputs
\* The quests a caller supplies are drawn from this pool; the quest at
\* position i of a list has id i.
QuestPool ==
  {[type |-> "win", remaining |-> 5, expiresInDays |-> 3],
   [type |-> "win", remaining |-> 50, expiresInDays |-> 1],
   [type |-> "win", remaining |-> 0, expiresInDays |-> 2],
   [type |-> "win", remaining |-> 2, expiresInDays |-> 1],
   [type |-> "win", remaining |-> 2, expiresInDays |-> 3],
   [type |-> "cast", remaining |-> 20, expiresInDays |-> 2],
   [type |-> "play_colors", remaining |-> 1, expiresInDays |-> 1]}

WithIds(list) ==
  [i \in DOMAIN list |->
     [id |-> i, type |-> list[i].type, remaining |-> list[i].remaining,
      expiresInDays |-> list[i].expiresInDays]]

ListsOver(pool) ==
  UNION {{WithIds(l) : l \in [1..n -> pool]} : n \in 0..MaxQuests}

QuestLists == ListsOver(QuestPool)

TimeBudgets == {5, 15, 60, 63, 175, 200}

\* win rates in tenths: 0.2 and 0.9 are out of range
WinRates == {2, 3, 6, 9}

SettingsChoices ==
  {NoSettings,
   [defined |-> TRUE, preferredQueues |-> <<>>],
   [defined |-> TRUE, preferredQueues |-> <<"standard_bo1", "explorer_bo1">>],
   [defined |-> TRUE, preferredQueues |-> <<"explorer_bo1", "standard_bo1">>],
   [defined |-> TRUE, preferredQueues |-> <<"traditional_draft">>]}

\* ---------------------------------------------------------------------
\* generateOptimizedPlan as a function of its arguments
\* ---------------------------------------------------------------------

\* The progress map after a step on bestOption
ProgressAfter(questProgress, bestOption) ==
  [id \in DOMAIN questProgress |->
     IF \E k \in DOMAIN bestOption.questProgress :
          bestOption.questProgress[k].questId = id
     THEN Max(0, questProgress[id]
                 - bestOption.questProgress[
                     CHOOSE j \in DOMAIN bestOption.questProgress :
                       bestOption.questProgress[j].questId = id].progressAmount)
     ELSE questProgress[id]]

\* Faulty variant: every quest the step advances counts as completed
CompletedAfterAll(completedQuests, bestOption, newProgress) ==
  completedQuests \cup
    {bestOption.questProgress[k].questId : k \in DOMAIN bestOption.questProgress}

\* The completed quests after a step on bestOption
CompletedAfter(completedQuests, bestOption, newProgress) ==
  completedQuests \cup
    {bestOption.questProgress[k].questId :
       k \in {j \in DOMAIN bestOption.questProgress :
                newProgress[bestOption.questProgress[j].questId] = 0}}

RECURSIVE GreedyLoop(_, _, _, _, _, _, _, _)

GreedyAdvance(quests, steps, remainingTime, questProgress, completedQuests, w, st, id, bestOption, newProgress) ==
  GreedyLoop(quests,
             Append(steps, createPlanStep(bestOption, questProgress, id)),
             remainingTime - bestOption.estimatedMinutes,
             newProgress,
             CompletedAfter(completedQuests, bestOption, newProgress),
             w, st, id + 1)

GreedyStep(quests, steps, remainingTime, questProgress, completedQuests, w, st, id, bestOption) ==
  IF bestOption.queueType = "none"
     \/ bestOption.estimatedMinutes > remainingTime
  THEN [steps |-> steps, completedQuests |-> completedQuests]
  ELSE GreedyAdvance(quests, steps, remainingTime, questProgress,
                     completedQuests, w, st, id, bestOption,
                     ProgressAfter(questProgress, bestOption))

\* The while loop of generateOptimizedPlan; id is the next fresh step id
GreedyLoop(quests, steps, remainingTime, questProgress, completedQuests, w, st, id) ==
  IF ~(/\ remainingTime > 0
       /\ Cardinality(DOMAIN questProgress) > Cardinality(completedQuests))
  THEN [steps |-> steps, completedQuests |-> completedQuests]
  ELSE GreedyStep(quests, steps, remainingTime, questProgress,
                  completedQuests, w, st, id,
                  findBestQueueOption(quests, questProgress, completedQuests,
                                      remainingTime, w, st))

\* The plan built from the loop's final steps and completedQuests
PlanOf(loopEnd, timeBudget, winRate, firstId) ==
  [id |-> firstId + Len(loopEnd.steps),
   steps |-> loopEnd.steps,
   totalEstimatedMinutes |-> SumMinutes(loopEnd.steps, 1),
   questsCompleted |-> loopEnd.completedQuests,
   timeBudget |-> timeBudget,
   winRate |-> winRate]

generateOptimizedPlan(quests, timeBudget, winRate, st, firstId) ==
  PlanOf(GreedyLoop(quests, <<>>, timeBudget,
                    [id \in {quests[k].id : k \in DOMAIN quests} |->
                       quests[CHOOSE k \in DOMAIN quests :
                                quests[k].id = id].remaining * 100],
                    {}, winRate, st, firstId),
         timeBudget, winRate, firstId)

\* ------------------------------------------------------------------- state
VARIABLES
  pc,               \* "idle", "loop" (inside generateOptimizedPlan), "returned"
  args,             \* arguments of the running or last optimizePlan call
  planQuests,       \* the quests generateOptimizedPlan was given
  steps,            \* generateOptimizedPlan: steps
  remainingTime,    \* generateOptimizedPlan: remainingTime
  questProgress,    \* generateOptimizedPlan: questProgress (hundredths)
  completedQuests,  \* generateOptimizedPlan: completedQuests
  result,           \* the OptimizationResult last returned
  plan,             \* the plan the caller holds
  stages,           \* history: the stages the last optimizePlan call ran
  lastOp,           \* history: the entry point last called
  recalcInput,      \* history: the plan given to the last recalculatePlan
  recalcs,          \* recalculatePlan calls so far
  updates,          \* updatePlanProgress calls on the held plan
  nextId,           \* source of fresh uuids
  lastCall          \* history: the arguments of the entry point last called

\* The EV calculator called on its own
VARIABLES
  ev                \* the last call of an EV calculator function and its result

\* The hook useDebouncedPlanGeneration
VARIABLES
  mounted,          \* "no", "yes" or "unmounted"
  props,            \* the inputs of the latest render
  state,            \* PlanGenerationState
  debounceTimeout,  \* debounceTimeoutRef: the pending timer and its closure
  abortController,  \* abortControllerRef: id of the newest generation, 0 if null
  inFlight,         \* generations waiting at `await setTimeout(0)`
  elapsed,          \* ms since the latest input change, capped at debounceMs
  trace             \* history: counters and the last optimizePlan call

\* The StorageManager's plan list
VARIABLES
  stored,           \* the item under questflow_plans: the serialized plan list
  lastSave,         \* history: the last call that writes the list
  saves             \* calls that write the list so far

sessionVars ==
  <<pc, args, planQuests, steps, remainingTime, questProgress,
    completedQuests, result, plan, stages, lastOp, recalcInput, recalcs,
    updates, nextId, lastCall>>

evVars == <<ev>>

hookVars ==
  <<mounted, props, state, debounceTimeout, abortController, inFlight,
    elapsed, trace>>

storageVars == <<stored, lastSave, saves>>

vars == <<sessionVars, evVars, hookVars, storageVars>>

loopVars == <<planQuests, steps, remainingTime, questProgress, completedQuests>>

NoPlan ==
  [id |-> 0, steps |-> <<>>, totalEstimatedMinutes |-> 0,
   questsCompleted |-> {}, timeBudget |-> 0, winRate |-> 0]

NoResult ==
  [success |-> FALSE, plan |-> NoPlan, error |-> "", errorFields |-> {},
   warnings |-> <<>>]

NoArgs == [quests |-> <<>>, timeBudget |-> 0, winRate |-> 0,
           settings |-> NoSettings]

\* lastCall when the entry point takes none of the recorded arguments
NoCall ==
  [stepId |-> 0, completed |-> FALSE, plan |-> NoPlan,
   updatedQuests |-> <<>>, quests |-> <<>>, settings |-> NoSettings]

Failure(error, fields, warnings) ==
  [success |-> FALSE, plan |-> NoPlan, error |-> error,
   errorFields |-> fields, warnings |-> warnings]

\* No quest, for calls that take none
NoQuest == [type |-> "none", remaining |-> 0, expiresInDays |-> 0]

\* No EV calculator call yet
NoEVCall ==
  [fn |-> "none", queueType |-> "none", winRate |-> 0, quest |-> NoQuest,
   returned |-> "nothing", expectedValue |-> SInt(0), expectedGold |-> SInt(0),
   expectedGems |-> SInt(0), expectedPacks |-> SInt(0), progressPerGame |-> 0,
   estimatedGamesToComplete |-> 0, error |-> ""]

\* The hook's arguments before it is mounted
NoInputs == [quests |-> <<>>, timeBudget |-> 0, winRate |-> 0]

\* useState initial value; plan: null is NoPlan, error: null is ""
InitialState ==
  [plan |-> NoPlan, isLoading |-> FALSE, error |-> "", warnings |-> <<>>]

\* changes and generations count the input changes and the generatePlan
\* calls so far; debounced, immediate and callsSinceChange count the timer's
\* generations, the immediate ones and the optimizePlan calls since the
\* latest input change; overlap records that inputs changed while a
\* generation was in flight.
NoTrace ==
  [changes |-> 0, generations |-> 0, debounced |-> 0, immediate |-> 0,
   callsSinceChange |-> 0, overlap |-> FALSE]

\* No call has written the plan list yet
NoSave ==
  [op |-> "none", plan |-> [id |-> 0, updatedAt |-> 0, valid |-> TRUE],
   plans |-> <<>>, before |-> <<>>, completed |-> FALSE]

Init ==
  /\ stored = <<>>
  /\ lastSave = NoSave
  /\ saves = 0
  /\ ev = NoEVCall
  /\ mounted = "no"
  /\ props = NoInputs
  /\ state = InitialState
  /\ debounceTimeout = [armed |-> FALSE, inputs |-> NoInputs]
  /\ abortController = 0
  /\ inFlight = {}
  /\ elapsed = 0
  /\ trace = NoTrace
  /\ pc = "idle"
  /\ args = NoArgs
  /\ planQuests = <<>>
  /\ steps = <<>>
  /\ remainingTime = 0
  /\ questProgress = <<>>
  /\ completedQuests = {}
  /\ result = NoResult
  /\ plan = NoPlan
  /\ stages = {}
  /\ lastOp = "none"
  /\ recalcInput = NoPlan
  /\ recalcs = 0
  /\ updates = 0
  /\ nextId = 1
  /\ lastCall = NoCall

\* optimizePlan up to the first iteration of the greedy loop: validation,
\* the two pre-checks and the initialisation of generateOptimizedPlan.
EnterOptimize(qs, tb, w, st) ==
  /\ args' = [quests |-> qs, timeBudget |-> tb, winRate |-> w,
              settings |-> st]
  /\ UNCHANGED <<plan, nextId>>
  /\ \E issues \in {ValidationIssues(qs, tb, w)} :
       IF issues # {}
       THEN /\ result' = Failure("validation", issues, <<>>)
            /\ stages' = {"validate"}
            /\ pc' = "returned"
            /\ UNCHANGED loopVars
       ELSE
         \E activeQuests \in {ActiveQuests(qs)} :
           IF Len(activeQuests) = 0
           THEN /\ result' =
                     Failure("No active quests to optimize", {},
                             <<Warning("All quests are already completed", 0)>>)
                /\ stages' = {"validate", "filter"}
                /\ pc' = "returned"
                /\ UNCHANGED loopVars
           ELSE
             \E feasibleQuests \in
                  {FeasibleQuests(activeQuests, tb, w, UserSettings(st))} :
               IF Len(feasibleQuests) = 0
               THEN /\ result' =
                         Failure("Insufficient time to complete any quests", {},
                                 <<Warning("Consider increasing time budget or adjusting win rate", 0)>>)
                    /\ stages' = {"validate", "filter", "feasibility"}
                    /\ pc' = "returned"
                    /\ UNCHANGED loopVars
               ELSE /\ result' = NoResult
                    /\ stages' =
                         {"validate", "filter", "feasibility", "generate"}
                    /\ pc' = "loop"
                    /\ planQuests' = feasibleQuests
                    /\ steps' = <<>>
                    /\ remainingTime' = tb
                    /\ questProgress' =
                         [id \in {feasibleQuests[k].id :
                                    k \in DOMAIN feasibleQuests} |->
                            feasibleQuests[CHOOSE k \in DOMAIN feasibleQuests :
                              feasibleQuests[k].id = id].remaining * 100]
                    /\ completedQuests' = {}

optimizePlan(qs, tb, w, st) ==
  /\ pc = "idle"
  /\ EnterOptimize(qs, tb, w, st)
  /\ lastOp' = "optimizePlan"
  /\ lastCall' = NoCall
  /\ UNCHANGED <<recalcInput, recalcs, updates>>
  /\ UNCHANGED <<evVars, hookVars, storageVars>>

\* optimizePlan: the result returned with a generated plan
SuccessResult(activeQuests, feasibleQuests, newPlan) ==
  [success |-> TRUE, plan |-> newPlan, error |-> "", errorFields |-> {},
   warnings |-> generateWarnings(activeQuests, feasibleQuests, newPlan)]

OptimizeFeasible(activeQuests, feasibleQuests, tb, w, st, firstId) ==
  IF Len(feasibleQuests) = 0
  THEN Failure("Insufficient time to complete any quests", {},
               <<Warning("Consider increasing time budget or adjusting win rate", 0)>>)
  ELSE SuccessResult(activeQuests, feasibleQuests,
                     generateOptimizedPlan(feasibleQuests, tb, w,
                                           UserSettings(st), firstId))

OptimizeActive(activeQuests, tb, w, st, firstId) ==
  IF Len(activeQuests) = 0
  THEN Failure("No active quests to optimize", {},
               <<Warning("All quests are already completed", 0)>>)
  ELSE OptimizeFeasible(activeQuests,
                        FeasibleQuests(activeQuests, tb, w, UserSettings(st)),
                        tb, w, st, firstId)

\* optimizePlan as a function of its arguments and the next fresh id
optimizePlanResult(qs, tb, w, st, firstId) ==
  IF ValidationIssues(qs, tb, w) # {}
  THEN Failure("validation", ValidationIssues(qs, tb, w), <<>>)
  ELSE OptimizeActive(ActiveQuests(qs), tb, w, st, firstId)

BestOption ==
  findBestQueueOption(planQuests, questProgress, completedQuests,
                      remainingTime, args.winRate, UserSettings(args.settings))

\* Faulty variant: the break also leaves when the option takes all the
\* remaining time
LoopContinuesWithMargin(bestOption) ==
  /\ remainingTime > 0
  /\ Cardinality(DOMAIN questProgress) > Cardinality(completedQuests)
  /\ bestOption.queueType # "none"
  /\ bestOption.estimatedMinutes < remainingTime

\* The loop condition holds and the iteration does not break on bestOption
LoopContinues(bestOption) ==
  /\ remainingTime > 0
  /\ Cardinality(DOMAIN questProgress) > Cardinality(completedQuests)
  /\ bestOption.queueType # "none"
  /\ bestOption.estimatedMinutes <= remainingTime

\* One iteration of the greedy loop that emits a step
LoopIterate ==
  /\ pc = "loop"
  /\ \E bestOption \in {BestOption} :
     \E newProgress \in {ProgressAfter(questProgress, bestOption)} :
        /\ LoopContinues(bestOption)
        /\ steps' = Append(steps, createPlanStep(bestOption, questProgress,
                                                 nextId))
        /\ nextId' = nextId + 1
        /\ remainingTime' = remainingTime - bestOption.estimatedMinutes
        /\ questProgress' = newProgress
        /\ completedQuests' =
             CompletedAfter(completedQuests, bestOption, newProgress)
  /\ UNCHANGED <<pc, args, planQuests, result, plan, stages, lastOp,
                 recalcInput, recalcs, updates, lastCall>>
  /\ UNCHANGED <<evVars, hookVars, storageVars>>

\* The loop ends; generateOptimizedPlan builds the plan and optimizePlan
\* returns it with its warnings.
LoopExit ==
  /\ pc = "loop"
  /\ ~LoopContinues(BestOption)
  /\ LET newPlan ==
           [id |-> nextId,
            steps |-> steps,
            totalEstimatedMinutes |-> SumMinutes(steps, 1),
            questsCompleted |-> completedQuests,
            timeBudget |-> args.timeBudget,
            winRate |-> args.winRate]
     IN /\ result' =
             [success |-> TRUE, plan |-> newPlan, error |-> "",
              errorFields |-> {},
              warnings |-> generateWarnings(ActiveQuests(args.quests),
                                            planQuests, newPlan)]
        /\ plan' = newPlan
  /\ nextId' = nextId + 1
  /\ pc' = "returned"
  /\ updates' = 0
  /\ UNCHANGED <<args, loopVars, stages, lastOp, recalcInput, recalcs,
                 lastCall>>
  /\ UNCHANGED <<evVars, hookVars, storageVars>>

\* Faulty variant: steps before the one named are set as well
updatedStepsUpTo(p, stepId, completed) ==
  [k \in DOMAIN p.steps |->
     IF \E j \in k..Len(p.steps) : p.steps[j].id = stepId
     THEN [p.steps[k] EXCEPT !.completed = completed]
     ELSE p.steps[k]]

\* Faulty variant: a completed step stays completed
updatedStepsSticky(p, stepId, completed) ==
  [k \in DOMAIN p.steps |->
     IF p.steps[k].id = stepId
     THEN [p.steps[k] EXCEPT !.completed = @ \/ completed]
     ELSE p.steps[k]]

\* The steps of the plan updatePlanProgress returns
updatedSteps(p, stepId, completed) ==
  [k \in DOMAIN p.steps |->
     IF p.steps[k].id = stepId
     THEN [p.steps[k] EXCEPT !.completed = completed]
     ELSE p.steps[k]]

updatePlanProgress(stepId, completed) ==
  /\ pc = "returned"
  /\ plan # NoPlan
  /\ updates < MaxUpdates
  /\ plan' = [plan EXCEPT !.steps = updatedSteps(plan, stepId, completed)]
  /\ updates' = updates + 1
  /\ lastOp' = "updatePlanProgress"
  /\ lastCall' = [NoCall EXCEPT !.stepId = stepId, !.completed = completed,
                                !.plan = plan]
  /\ UNCHANGED <<pc, args, loopVars, result, stages, recalcInput, recalcs,
                 nextId>>
  /\ UNCHANGED <<evVars, hookVars, storageVars>>

\* Faulty variant: sums the steps that are not completed
RECURSIVE UncompletedTime(_, _)
UncompletedTime(stepSeq, i) ==
  IF i > Len(stepSeq) THEN 0
  ELSE (IF stepSeq[i].completed THEN 0 ELSE stepSeq[i].estimatedMinutes)
       + UncompletedTime(stepSeq, i + 1)

RECURSIVE CompletedTime(_, _)
CompletedTime(stepSeq, i) ==
  IF i > Len(stepSeq) THEN 0
  ELSE (IF stepSeq[i].completed THEN stepSeq[i].estimatedMinutes ELSE 0)
       + CompletedTime(stepSeq, i + 1)

\* Faulty variant: the completed minutes are not subtracted
RecalcRemainingTimeWhole(originalPlan) ==
  originalPlan.timeBudget

\* recalculatePlan: remainingTime
RecalcRemainingTime(originalPlan) ==
  originalPlan.timeBudget - CompletedTime(originalPlan.steps, 1)

\* Faulty variant: the plan returned has its completion flags cleared
KeptPlanResultReset(originalPlan, warning) ==
  [success |-> TRUE,
   plan |-> [originalPlan EXCEPT !.steps =
               [k \in DOMAIN originalPlan.steps |->
                  [originalPlan.steps[k] EXCEPT !.completed = FALSE]]],
   error |-> "", errorFields |-> {}, warnings |-> <<Warning(warning, 0)>>]

\* recalculatePlan: the result of the two branches that keep the plan
KeptPlanResult(originalPlan, warning) ==
  [success |-> TRUE, plan |-> originalPlan, error |-> "", errorFields |-> {},
   warnings |-> <<Warning(warning, 0)>>]

\* Faulty variant: re-optimises at the default win rate 0.5
ReoptimizeInputDefaultWinRate(originalPlan, updatedQuests, remaining, st) ==
  [quests |-> updatedQuests, timeBudget |-> remaining, winRate |-> 5,
   settings |-> st]

\* recalculatePlan: the arguments of its call of optimizePlan
ReoptimizeInput(originalPlan, updatedQuests, remaining, st) ==
  [quests |-> updatedQuests, timeBudget |-> remaining,
   winRate |-> originalPlan.winRate, settings |-> st]

recalculatePlan(updatedQuests, st) ==
  /\ pc = "returned"
  /\ plan # NoPlan
  /\ recalcs < MaxRecalcs
  /\ recalcs' = recalcs + 1
  /\ recalcInput' = plan
  /\ lastOp' = "recalculatePlan"
  /\ lastCall' = [NoCall EXCEPT !.updatedQuests = updatedQuests,
                                !.quests = args.quests, !.settings = st]
  /\ UNCHANGED <<evVars, hookVars, storageVars>>
  /\ \E remaining \in {RecalcRemainingTime(plan)} :
       IF remaining <= 0
       THEN /\ result' =
                 KeptPlanResult(plan, "All allocated time has been used")
            /\ UNCHANGED <<pc, args, loopVars, plan, stages, nextId, updates>>
       ELSE IF remaining < 15
       THEN /\ result' =
                 KeptPlanResult(plan, "Insufficient remaining time for additional optimization")
            /\ UNCHANGED <<pc, args, loopVars, plan, stages, nextId, updates>>
       ELSE \E input \in {ReoptimizeInput(plan, updatedQuests, remaining, st)} :
              /\ EnterOptimize(input.quests, input.timeBudget, input.winRate,
                               input.settings)
              /\ UNCHANGED updates

\* The caller reports progress: every remaining count lowered by one
DecrementAll(qs) ==
  [i \in DOMAIN qs |-> [qs[i] EXCEPT !.remaining = Max(0, qs[i].remaining - 1)]]

\* The optimizer alone, over the wide input domain
NextOptimizer ==
  \/ /\ pc = "idle"
     /\ \E qs \in QuestLists, tb \in TimeBudgets, w \in WinRates,
           st \in SettingsChoices : optimizePlan(qs, tb, w, st)
  \/ LoopIterate
  \/ LoopExit

SpecOptimizer == Init /\ [][NextOptimizer]_vars

\* A caller's session: a plan, step completions, a recalculation
SessionQuestPool ==
  {[type |-> "win", remaining |-> 2, expiresInDays |-> 1],
   [type |-> "win", remaining |-> 0, expiresInDays |-> 2],
   [type |-> "cast", remaining |-> 20, expiresInDays |-> 2],
   [type |-> "play_colors", remaining |-> 1, expiresInDays |-> 1]}

SessionQuestLists == ListsOver(SessionQuestPool)
SessionTimeBudgets == {21, 60}
SessionWinRates == {3, 6}

Next ==
  \/ /\ pc = "idle"
     /\ \E qs \in SessionQuestLists, tb \in SessionTimeBudgets,
           w \in SessionWinRates : optimizePlan(qs, tb, w, NoSettings)
  \/ LoopIterate
  \/ LoopExit
  \/ /\ pc = "returned"
     /\ \E k \in DOMAIN plan.steps, completed \in BOOLEAN :
          updatePlanProgress(plan.steps[k].id, completed)
  \/ /\ pc = "returned"
     /\ \E uq \in {args.quests, DecrementAll(args.quests)} :
          recalculatePlan(uq, args.settings)

Spec == Init /\ [][Next]_vars

\* ------------------------------------------------------------------ claims
\* OptimizedPlanSchema: steps.max(10)
StepCap == 10

InsufficientTime == "Insufficient time to complete any quests"
NoActiveQuests == "No active quests to optimize"

\* optimizePlan has returned a plan
Succeeded == pc = "returned" /\ lastOp = "optimizePlan" /\ result.success

\* optimizePlan has returned on arguments that pass validation
ReturnedOnValidInput ==
  /\ pc = "returned"
  /\ lastOp = "optimizePlan"
  /\ ValidationIssues(args.quests, args.timeBudget, args.winRate) = {}

\* C1: for every optimizePlan call that returns success, the plan's
\* totalEstimatedMinutes is the sum of its steps' estimatedMinutes and is at
\* most the plan's timeBudget.
C1_TotalIsSumWithinBudget ==
  Succeeded =>
    /\ result.plan.totalEstimatedMinutes = SumMinutes(result.plan.steps, 1)
    /\ result.plan.totalEstimatedMinutes <= result.plan.timeBudget
    /\ result.plan.timeBudget = args.timeBudget

\* A plan of several steps that uses its budget to the minute
C1_Witness ==
  /\ Succeeded
  /\ Len(result.plan.steps) >= 2
  /\ result.plan.totalEstimatedMinutes = result.plan.timeBudget

\* C2: a successful optimizePlan call returns at most 10 steps, and the
\* greedy loop never holds more than 10 steps, also while time and
\* incomplete quests remain.
C2_AtMostTenSteps ==
  /\ Len(steps) <= StepCap
  /\ Succeeded => Len(result.plan.steps) <= StepCap

\* A plan of exactly 10 steps that leaves a quest incomplete
C2_Witness ==
  /\ Succeeded
  /\ Len(result.plan.steps) = StepCap
  /\ \E id \in DOMAIN questProgress : id \notin result.plan.questsCompleted

\* C3: a successful optimizePlan call returns at least one step.
C3_AtLeastOneStep ==
  Succeeded => Len(result.plan.steps) >= 1

\* A plan of exactly one step
C3_Witness ==
  /\ Succeeded
  /\ Len(result.plan.steps) = 1

\* No active quest can be completed within the budget in any allowed queue:
\* gamesToComplete * averageGameLength > timeBudget throughout
NoneCompletable ==
  \A i \in DOMAIN args.quests :
    args.quests[i].remaining > 0 =>
      \A q \in {AvailableQueues(UserSettings(args.settings).preferredQueues)[k] :
                k \in DOMAIN
                  AvailableQueues(UserSettings(args.settings).preferredQueues)} :
        calculateQuestProgressRate(args.quests[i], q, args.winRate)
          .estimatedMinutesToComplete > args.timeBudget

\* C4: with valid timeBudget and winRate and a quest with remaining > 0, if
\* no active quest is completable within timeBudget in any allowed queue,
\* optimizePlan fails with the 'Insufficient time' error and no plan.
C4_InsufficientTime ==
  (/\ ReturnedOnValidInput
   /\ \E i \in DOMAIN args.quests : args.quests[i].remaining > 0
   /\ NoneCompletable) =>
    /\ ~result.success
    /\ result.error = InsufficientTime
    /\ result.plan = NoPlan

\* Two active quests, neither completable in the budget
C4_Witness ==
  /\ ReturnedOnValidInput
  /\ Len(args.quests) = 2
  /\ \A i \in DOMAIN args.quests : args.quests[i].remaining > 0
  /\ NoneCompletable
  /\ result.error = InsufficientTime

\* C5: with valid timeBudget and winRate, if the quest list is empty or
\* every quest has remaining = 0, optimizePlan fails with the 'No active
\* quests' error and no plan.
C5_NoActiveQuests ==
  (/\ ReturnedOnValidInput
   /\ \A i \in DOMAIN args.quests : args.quests[i].remaining = 0) =>
    /\ ~result.success
    /\ result.error = NoActiveQuests
    /\ result.plan = NoPlan

\* A non-empty list of finished quests is rejected
C5_Witness ==
  /\ ReturnedOnValidInput
  /\ Len(args.quests) = 2
  /\ \A i \in DOMAIN args.quests : args.quests[i].remaining = 0
  /\ result.error = NoActiveQuests

TimeBudgetOutOfRange == args.timeBudget < 15 \/ args.timeBudget > 180
WinRateOutOfRange == args.winRate < 3 \/ args.winRate > 8

\* C6: if timeBudget is outside [15,180] or winRate outside [0.3,0.8],
\* optimizePlan fails, its error names exactly the offending fields, there
\* is no plan, and no filtering, feasibility check or generation has run.
C6_ValidationFirst ==
  (/\ pc = "returned"
   /\ lastOp = "optimizePlan"
   /\ (TimeBudgetOutOfRange \/ WinRateOutOfRange)) =>
    /\ ~result.success
    /\ result.plan = NoPlan
    /\ ("timeBudget" \in result.errorFields) = TimeBudgetOutOfRange
    /\ ("winRate" \in result.errorFields) = WinRateOutOfRange
    /\ stages = {"validate"}
    /\ steps = <<>>

\* A call with active quests and both fields out of range
C6_Witness ==
  /\ pc = "returned"
  /\ \E i \in DOMAIN args.quests : args.quests[i].remaining > 0
  /\ TimeBudgetOutOfRange
  /\ WinRateOutOfRange
  /\ result.errorFields = {"timeBudget", "winRate"}

\* The example call: one WinGames quest, remaining 5, expiresInDays 3,
\* winRate 0.6, no settings passed
OnExample ==
  /\ pc = "returned"
  /\ lastOp = "optimizePlan"
  /\ args.quests =
       WithIds(<<[type |-> "win", remaining |-> 5, expiresInDays |-> 3]>>)
  /\ args.winRate = 6
  /\ ~args.settings.defined

\* Some step of the returned plan has progress on quest id
SomeStepReferences(id) ==
  \E k \in DOMAIN result.plan.steps :
    \E e \in DOMAIN result.plan.steps[k].questProgress :
      result.plan.steps[k].questProgress[e].questId = id

\* C7 as stated: on the example with timeBudget 60 optimizePlan succeeds,
\* totalEstimatedMinutes <= 60 and a step references the quest.
C7_ExampleSucceedsAt60 ==
  (OnExample /\ args.timeBudget = 60) =>
    /\ result.success
    /\ result.plan.totalEstimatedMinutes <= 60
    /\ SomeStepReferences(1)

\* C7 amended: on the example the quest needs 9 games of at least 7
\* minutes; with timeBudget 60 optimizePlan fails with 'Insufficient time'
\* and no plan; with timeBudget 63 it succeeds, totalEstimatedMinutes <= 63
\* and a step references the quest.
C7_ExampleNeeds63Minutes ==
  /\ (OnExample /\ args.timeBudget = 60) =>
       /\ ~result.success
       /\ result.error = InsufficientTime
       /\ result.plan = NoPlan
  /\ (OnExample /\ args.timeBudget = 63) =>
       /\ result.success
       /\ result.plan.totalEstimatedMinutes <= 63
       /\ SomeStepReferences(1)

\* The example has returned a plan for the budget of 63 minutes
C7_Witness ==
  /\ OnExample
  /\ args.timeBudget = 63
  /\ result.success
  /\ SomeStepReferences(1)

\* Queue identifiers in lexicographic order
LexOrder ==
  <<"alchemy_bo1", "explorer_bo1", "historic_bo1", "historic_bo3",
    "midweek_magic", "premier_draft", "quick_draft", "standard_bo1",
    "standard_bo3", "traditional_draft">>

LexRank(queueType) == CHOOSE i \in DOMAIN LexOrder : LexOrder[i] = queueType

\* The soonest expiry among the quests an option touches
SoonestExpiry(option) ==
  IF option.questProgress = <<>> THEN Infinity
  ELSE CHOOSE d \in {option.questProgress[k].expiresInDays :
                       k \in DOMAIN option.questProgress} :
         \A k \in DOMAIN option.questProgress :
           d <= option.questProgress[k].expiresInDays

\* best is first among the options tied with it: soonest expiry, then
\* lexicographically first queue identifier
WinsTie(best, option) ==
  (/\ option.queueType # "none"
   /\ option.canCompleteInBudget
   /\ SCmp(option.priority, best.priority) = 0) =>
    \/ SoonestExpiry(best) < SoonestExpiry(option)
    \/ /\ SoonestExpiry(best) = SoonestExpiry(option)
       /\ LexRank(best.queueType) <= LexRank(option.queueType)

\* C8: when options that fit the remaining time share the highest priority
\* in an iteration, the chosen one touches the quest with the soonest
\* expiry and, among those, has the lexicographically first queue
\* identifier, whatever the order of the allowed queues.
C8_TieBreakSoonestThenLexicographic ==
  pc = "loop" =>
    \A best \in {BestOption} :
      best.queueType # "none" =>
        \A q \in {AvailableQueues(UserSettings(args.settings).preferredQueues)[k] :
                  k \in DOMAIN
                    AvailableQueues(UserSettings(args.settings).preferredQueues)} :
          WinsTie(best,
                  evaluateQueueOption(q, planQuests, questProgress,
                                      completedQuests, remainingTime,
                                      args.winRate))

\* C9: in a two-quest input where one quest expires within 1 day and the
\* other in 3 days (among them the pairs of equal type and remaining, hence
\* equal per-minute value), whenever the expiring quest is feasible the
\* first step of the returned plan lists it in its questProgress.
C9_ExpiringQuestInFirstStep ==
  (Succeeded /\ Len(args.quests) = 2) =>
    \A i \in {1, 2} :
      (/\ args.quests[i].expiresInDays <= 1
       /\ args.quests[3 - i].expiresInDays = 3
       /\ \E k \in DOMAIN planQuests : planQuests[k].id = i) =>
        /\ Len(result.plan.steps) >= 1
        /\ \E e \in DOMAIN result.plan.steps[1].questProgress :
             result.plan.steps[1].questProgress[e].questId = i

\* Two win quests of equal remaining, the second one expiring within a
\* day, both feasible; the first step lists the expiring one
C9_Witness ==
  /\ Succeeded
  /\ Len(args.quests) = 2
  /\ args.quests[1].type = args.quests[2].type
  /\ args.quests[1].remaining = args.quests[2].remaining
  /\ args.quests[1].expiresInDays = 3
  /\ args.quests[2].expiresInDays = 1
  /\ Len(planQuests) = 2
  /\ \E e \in DOMAIN result.plan.steps[1].questProgress :
       result.plan.steps[1].questProgress[e].questId = 2

\* recalculatePlan was the last call, on a plan all of whose steps were
\* marked complete
RecalculatedAllComplete ==
  /\ lastOp = "recalculatePlan"
  /\ recalcInput.steps # <<>>
  /\ \A k \in DOMAIN recalcInput.steps : recalcInput.steps[k].completed

AllTimeUsed == <<Warning("All allocated time has been used", 0)>>
InsufficientRemaining ==
  <<Warning("Insufficient remaining time for additional optimization", 0)>>

\* C10 as stated: after every step was marked complete, recalculate returns
\* the input plan's steps with the 'all time used' warning.
C10_AllCompleteAllTimeUsed ==
  (RecalculatedAllComplete /\ pc = "returned") =>
    /\ result.success
    /\ result.plan.steps = recalcInput.steps
    /\ result.warnings = AllTimeUsed

\* C10 amended: after every step was marked complete, with unused =
\* timeBudget - totalEstimatedMinutes: if unused <= 0 recalculate returns
\* the input plan with the 'all time used' warning; if 0 < unused < 15 it
\* returns the input plan with the 'insufficient remaining time' warning;
\* if unused >= 15 it runs optimizePlan on the updated quests with unused
\* as the time budget and the plan's win rate.
C10_AllCompleteByUnusedTime ==
  RecalculatedAllComplete =>
    IF recalcInput.timeBudget - recalcInput.totalEstimatedMinutes <= 0
    THEN /\ pc = "returned"
         /\ result.success
         /\ result.plan = recalcInput
         /\ result.warnings = AllTimeUsed
    ELSE IF recalcInput.timeBudget - recalcInput.totalEstimatedMinutes < 15
    THEN /\ pc = "returned"
         /\ result.success
         /\ result.plan = recalcInput
         /\ result.warnings = InsufficientRemaining
    ELSE /\ args.timeBudget =
              recalcInput.timeBudget - recalcInput.totalEstimatedMinutes
         /\ args.winRate = recalcInput.winRate
         /\ "validate" \in stages
         /\ result.warnings # AllTimeUsed
         /\ result.warnings # InsufficientRemaining

\* A plan that used its whole budget, all steps complete, recalculated
C10_Witness ==
  /\ RecalculatedAllComplete
  /\ Len(recalcInput.steps) >= 2
  /\ recalcInput.totalEstimatedMinutes = recalcInput.timeBudget
  /\ result.plan.steps = recalcInput.steps
  /\ result.warnings = AllTimeUsed

\* ---------------------------------------------------------------------
\* Recalculation and progress updates (specification Spec)
\* ---------------------------------------------------------------------

\* The last entry point called was recalculatePlan and it has returned
RecalcReturned == lastOp = "recalculatePlan" /\ pc = "returned"

SomeStepCompleted(p) == \E k \in DOMAIN p.steps : p.steps[k].completed

\* A successful recalculatePlan, called with the quests the plan was
\* made from, on a plan with at least one completed step
RecalcAfterCompletion ==
  /\ RecalcReturned
  /\ result.success
  /\ SomeStepCompleted(recalcInput)
  /\ lastCall.updatedQuests = lastCall.quests

\* The time budget of the recalculated plan less its completed minutes
RemainingOfInput ==
  recalcInput.timeBudget - CompletedTime(recalcInput.steps, 1)

\* C11 as stated: after a step was completed, a successful recalculatePlan
\* with the same quests returns a plan whose totalEstimatedMinutes is
\* strictly less than the original plan's.
C11_TotalStrictlyLess ==
  RecalcAfterCompletion =>
    result.plan.totalEstimatedMinutes < recalcInput.totalEstimatedMinutes

\* C11 amended: the plan returned fits the remaining time when at least 15
\* minutes remain, and so totals strictly less than the original time
\* budget; with less than 15 minutes remaining the total is the original
\* plan's total.
C11_TotalWithinRemainingTime ==
  RecalcAfterCompletion =>
    IF RemainingOfInput < 15
    THEN result.plan.totalEstimatedMinutes = recalcInput.totalEstimatedMinutes
    ELSE /\ result.plan.totalEstimatedMinutes <= RemainingOfInput
         /\ result.plan.totalEstimatedMinutes < recalcInput.timeBudget

\* A re-optimised plan that is no shorter than the plan it replaces
C11_Witness ==
  /\ RecalcAfterCompletion
  /\ RemainingOfInput >= 15
  /\ result.plan # recalcInput
  /\ result.plan.totalEstimatedMinutes >= recalcInput.totalEstimatedMinutes

\* This step is a call of recalculatePlan
RecalcStep == lastOp' = "recalculatePlan" /\ recalcs' = recalcs + 1

\* C12: when remainingTime = timeBudget - completed minutes is below 15,
\* recalculatePlan returns success with the input plan itself (steps,
\* completion flags, totals, questsCompleted, timeBudget and winRate), with
\* exactly one warning, 'all time used' when remainingTime <= 0 and
\* 'insufficient remaining time' otherwise, and the optimizer does not run:
\* its arguments, stages, loop state and id source are untouched.
C12_ShortRemainderKeepsPlan ==
  [][(RecalcStep /\ plan.timeBudget - CompletedTime(plan.steps, 1) < 15) =>
       /\ pc' = "returned"
       /\ result'.success
       /\ result'.plan = plan
       /\ Len(result'.warnings) = 1
       /\ result'.warnings =
            (IF plan.timeBudget - CompletedTime(plan.steps, 1) <= 0
             THEN AllTimeUsed ELSE InsufficientRemaining)
       /\ UNCHANGED <<plan, args, stages, loopVars, nextId>>]_vars

\* recalculatePlan kept a plan that had steps left to do
C12_Witness ==
  /\ RecalcReturned
  /\ RemainingOfInput > 0
  /\ RemainingOfInput < 15
  /\ \E k \in DOMAIN recalcInput.steps : ~recalcInput.steps[k].completed
  /\ result.plan = recalcInput
  /\ result.warnings = InsufficientRemaining

StepIds(p) == {p.steps[k].id : k \in DOMAIN p.steps}

\* C13: when remainingTime is at least 15, recalculatePlan calls optimizePlan
\* with (updatedQuests, remainingTime, the plan's winRate, settings) and
\* returns exactly that call's result; on success the new plan's timeBudget
\* is remainingTime, its winRate is the original plan's, and none of its
\* steps is a step of the old plan.
C13_ReoptimizesRemainder ==
  (lastOp = "recalculatePlan" /\ RemainingOfInput >= 15) =>
    /\ args = [quests |-> lastCall.updatedQuests,
               timeBudget |-> RemainingOfInput,
               winRate |-> recalcInput.winRate,
               settings |-> lastCall.settings]
    /\ pc = "returned" =>
         /\ result = optimizePlanResult(lastCall.updatedQuests,
                                        RemainingOfInput, recalcInput.winRate,
                                        lastCall.settings, recalcInput.id + 1)
         /\ result.success =>
              /\ result.plan.timeBudget = RemainingOfInput
              /\ result.plan.winRate = recalcInput.winRate
              /\ StepIds(result.plan) \cap StepIds(recalcInput) = {}
              /\ result.plan.id # recalcInput.id

\* A re-optimisation that returned a plan with steps
C13_Witness ==
  /\ RecalcReturned
  /\ RemainingOfInput >= 15
  /\ result.success
  /\ result.plan.steps # <<>>
  /\ result.plan.timeBudget < recalcInput.timeBudget
  /\ plan = result.plan

\* This step is a call of updatePlanProgress
UpdateStep == lastOp' = "updatePlanProgress" /\ updates' = updates + 1

\* C14: updatePlanProgress(plan, stepId, completed) returns a plan in which
\* the step with id stepId has the given completed value and every other
\* field of every step and of the plan is as in the input plan; the plan
\* that optimizePlan returned and the quests are not modified.
C14_UpdateTouchesOneFlag ==
  [][UpdateStep =>
       /\ DOMAIN plan'.steps = DOMAIN plan.steps
       /\ \A k \in DOMAIN plan.steps :
            IF plan.steps[k].id = lastCall'.stepId
            THEN plan'.steps[k] =
                   [plan.steps[k] EXCEPT !.completed = lastCall'.completed]
            ELSE plan'.steps[k] = plan.steps[k]
       /\ [plan' EXCEPT !.steps = plan.steps] = plan
       /\ UNCHANGED <<args, result, recalcInput>>]_vars

\* An update changed one step of a plan of several steps, the other steps
\* holding both completed and incomplete ones
C14_Witness ==
  /\ lastOp = "updatePlanProgress"
  /\ Len(plan.steps) >= 3
  /\ \E k \in DOMAIN plan.steps :
       /\ plan.steps[k].id = lastCall.stepId
       /\ plan.steps[k].completed = lastCall.completed
       /\ plan.steps[k].completed # result.plan.steps[k].completed
  /\ \E i, j \in DOMAIN plan.steps :
       /\ plan.steps[i].id # lastCall.stepId
       /\ plan.steps[j].id # lastCall.stepId
       /\ plan.steps[i].completed
       /\ ~plan.steps[j].completed

\* This step marks incomplete the step that the call before it marked
\* complete; lastCall.plan is the plan the first of the two calls was given
MarkedCompleteThenIncomplete ==
  /\ lastOp = "updatePlanProgress"
  /\ lastCall.completed
  /\ UpdateStep
  /\ lastCall'.stepId = lastCall.stepId
  /\ ~lastCall'.completed

\* C15 as stated: marking a step complete and then marking the same step
\* incomplete returns a plan identical to the original plan.
C15_CompleteThenIncompleteIsOriginal ==
  [][MarkedCompleteThenIncomplete => plan' = lastCall.plan]_vars

\* C15 amended: marking a step complete and then incomplete returns the
\* original plan with that step incomplete, so a plan identical to the
\* original exactly when the step was incomplete in the original, as every
\* step of a plan fresh from optimizePlan is.
C15_CompleteThenIncompleteClearsStep ==
  [][MarkedCompleteThenIncomplete =>
       /\ DOMAIN plan'.steps = DOMAIN lastCall.plan.steps
       /\ \A k \in DOMAIN plan'.steps :
            plan'.steps[k] =
              (IF lastCall.plan.steps[k].id = lastCall.stepId
               THEN [lastCall.plan.steps[k] EXCEPT !.completed = FALSE]
               ELSE lastCall.plan.steps[k])
       /\ [plan' EXCEPT !.steps = lastCall.plan.steps] = lastCall.plan
       /\ (\A k \in DOMAIN lastCall.plan.steps :
             lastCall.plan.steps[k].id = lastCall.stepId
               => ~lastCall.plan.steps[k].completed)
            => plan' = lastCall.plan]_vars

\* A step of a fresh plan was marked complete, then incomplete, and the
\* plan is the one optimizePlan returned
C15_Witness ==
  /\ lastOp = "updatePlanProgress"
  /\ updates = 2
  /\ ~lastCall.completed
  /\ Len(plan.steps) >= 2
  /\ \E k \in DOMAIN lastCall.plan.steps :
       /\ lastCall.plan.steps[k].id = lastCall.stepId
       /\ lastCall.plan.steps[k].completed
       /\ ~plan.steps[k].completed
  /\ plan = result.plan

\* ---------------------------------------------------------------------
\* The EV calculator called on its own (specification SpecEV)
\* ---------------------------------------------------------------------

\* The loop of calculateExpectedReward for a win rate w/10 outside [0,1]:
\* the same sum, whose probabilities are then negative or exceed one
RECURSIVE ExpectedSumSigned(_, _, _)
ExpectedSumSigned(rewards, w, wins) ==
  IF wins >= Len(rewards) THEN SInt(0)
  ELSE SAdd(SMulSmall(SInt(WinProbability(wins, Len(rewards), w)),
                      rewards[wins + 1]),
            ExpectedSumSigned(rewards, w, wins + 1))

\* calculateExpectedReward for any win rate, as a signed value
ExpectedRewardAt(rewards, w) ==
  IF w \in 0..10
  THEN [neg |-> FALSE, mag |-> calculateExpectedReward(rewards, w)]
  ELSE IF Len(rewards) = 0 THEN SInt(0)
  ELSE ExpectedSumSigned(rewards, w, 0)

\* calculateQueueEV: goldEquivalent for any win rate
GoldEquivalentAt(rewards, w) ==
  SAdd(SAdd(ExpectedRewardAt(rewards.winRewards, w),
            SMulSmall(ExpectedRewardAt(rewards.gemRewards, w), 5)),
       SMulSmall(ExpectedRewardAt(rewards.packRewards, w), 1000))

\* Win rates in tenths: the domain [0,1] and a value on either side of it
EVWinRates == (0..10) \cup {-1, 15}

EVQuests ==
  {[type |-> "win", remaining |-> 5, expiresInDays |-> 3],
   [type |-> "win", remaining |-> 0, expiresInDays |-> 2],
   [type |-> "cast", remaining |-> 20, expiresInDays |-> 2],
   [type |-> "play_colors", remaining |-> 1, expiresInDays |-> 1]}

\* calculateQueueEV(queueType, winRate) is called and returns
CallQueueEV(queueType, w) ==
  /\ ev' = [NoEVCall EXCEPT
              !.fn = "calculateQueueEV",
              !.queueType = queueType,
              !.winRate = w,
              !.returned = "EVResult",
              !.expectedValue =
                 GoldEquivalentAt(getQueueRewardsWithFallback(queueType), w),
              !.expectedGold =
                 ExpectedRewardAt(
                   getQueueRewardsWithFallback(queueType).winRewards, w),
              !.expectedGems =
                 ExpectedRewardAt(
                   getQueueRewardsWithFallback(queueType).gemRewards, w),
              !.expectedPacks =
                 ExpectedRewardAt(
                   getQueueRewardsWithFallback(queueType).packRewards, w)]
  /\ UNCHANGED <<sessionVars, hookVars, storageVars>>

\* calculateQuestProgressRate(quest, queueType, winRate) is called and returns
CallQuestProgressRate(quest, queueType, w) ==
  /\ ev' = [NoEVCall EXCEPT
              !.fn = "calculateQuestProgressRate",
              !.queueType = queueType,
              !.winRate = w,
              !.quest = quest,
              !.returned = "QuestProgressResult",
              !.progressPerGame =
                 calculateQuestProgressRate(quest, queueType, w)
                   .progressPerGame,
              !.estimatedGamesToComplete =
                 calculateQuestProgressRate(quest, queueType, w)
                   .estimatedGamesToComplete]
  /\ UNCHANGED <<sessionVars, hookVars, storageVars>>

\* validateEVInput({queueType, winRate}): the schema's bounds on winRate
validateEVInput(queueType, w) ==
  IF w < 0
  THEN [success |-> FALSE,
        error |-> "Number must be greater than or equal to 0"]
  ELSE IF w > 10
  THEN [success |-> FALSE, error |-> "Win rate must be between 0 and 1"]
  ELSE [success |-> TRUE, error |-> ""]

CallValidateEVInput(queueType, w) ==
  /\ ev' = [NoEVCall EXCEPT
              !.fn = "validateEVInput",
              !.queueType = queueType,
              !.winRate = w,
              !.returned =
                 IF validateEVInput(queueType, w).success
                 THEN "validated input" ELSE "validation failure",
              !.error = validateEVInput(queueType, w).error]
  /\ UNCHANGED <<sessionVars, hookVars, storageVars>>

NextEV ==
  \/ \E queueType \in QueueTypeSet, w \in EVWinRates :
       CallQueueEV(queueType, w)
  \/ \E quest \in EVQuests, queueType \in QueueTypeSet, w \in EVWinRates :
       CallQuestProgressRate(quest, queueType, w)
  \/ \E queueType \in QueueTypeSet, w \in EVWinRates :
       CallValidateEVInput(queueType, w)

SpecEV == Init /\ [][NextEV]_vars

\* The value x is at most the expected reward of the array at win rate w2
AtMostRewardAt(x, rewards, w2) ==
  SCmp(x, [neg |-> FALSE, mag |-> calculateExpectedReward(rewards, w2)]) <= 0

\* C16: for every queue and each of its reward arrays, and any two win
\* rates 0 <= w1 <= w2 <= 1, the expected value calculateQueueEV returns at
\* w1 is at most the one at w2, the boundary rates 0 and 1 included.
C16_QueueEVMonotoneInWinRate ==
  (ev.fn = "calculateQueueEV" /\ ev.winRate \in 0..10) =>
    \A w2 \in ev.winRate..10 :
      /\ SCmp(ev.expectedValue,
              [neg |-> FALSE,
               mag |-> QueueEVTable[ev.queueType][w2].expectedValue]) <= 0
      /\ AtMostRewardAt(ev.expectedGold,
                        getQueueRewardsWithFallback(ev.queueType).winRewards,
                        w2)
      /\ AtMostRewardAt(ev.expectedGems,
                        getQueueRewardsWithFallback(ev.queueType).gemRewards,
                        w2)
      /\ AtMostRewardAt(ev.expectedPacks,
                        getQueueRewardsWithFallback(ev.queueType).packRewards,
                        w2)

\* A draft queue, with all three reward arrays, evaluated at an interior
\* win rate whose value lies strictly between those at 0 and at 1
C16_Witness ==
  /\ ev.fn = "calculateQueueEV"
  /\ ev.queueType = "quick_draft"
  /\ ev.winRate = 9
  /\ SCmp([neg |-> FALSE,
           mag |-> QueueEVTable["quick_draft"][0].expectedValue],
          ev.expectedValue) < 0
  /\ SCmp(ev.expectedValue,
          [neg |-> FALSE,
           mag |-> QueueEVTable["quick_draft"][10].expectedValue]) < 0

EVFunctions == {"calculateQueueEV", "calculateQuestProgressRate"}

\* C17 as stated: an EV calculator function given a win rate outside [0,1]
\* returns a validation failure, and no EV or progress value.
C17_OutOfDomainRejected ==
  (ev.fn \in EVFunctions /\ ev.winRate \notin 0..10) =>
    ev.returned = "validation failure"

\* ---------------------------------------------------------------------
\* The hook useDebouncedPlanGeneration (specification SpecHook)
\* ---------------------------------------------------------------------

\* options.debounceMs, by default
DebounceMs == 300

createDefaultSettings ==
  [defined |-> TRUE, preferredQueues |-> DefaultPreferredQueues]

WinTwo == WithIds(<<[type |-> "win", remaining |-> 2, expiresInDays |-> 1]>>)

\* Inputs for which optimizePlan returns a plan (budgets 60 and 30) or a
\* failure (budget 21), and inputs that fail one or two of the hook's checks
HookInputs ==
  {[quests |-> WinTwo, timeBudget |-> 60, winRate |-> 6],
   [quests |-> WinTwo, timeBudget |-> 30, winRate |-> 6],
   [quests |-> WinTwo, timeBudget |-> 21, winRate |-> 6],
   [quests |-> <<>>, timeBudget |-> 60, winRate |-> 6],
   [quests |-> WinTwo, timeBudget |-> 5, winRate |-> 6],
   [quests |-> WinTwo, timeBudget |-> 60, winRate |-> 9],
   [quests |-> <<>>, timeBudget |-> 5, winRate |-> 6],
   [quests |-> WinTwo, timeBudget |-> 5, winRate |-> 9]}

\* optimizePlan(quests, budget, rate, optimizationSettings), tabulated
OptimizeTable ==
  [i \in HookInputs |->
     optimizePlanResult(i.quests, i.timeBudget, i.winRate,
                        createDefaultSettings, 1)]

AddSomeQuests ==
  <<Warning("Add some quests to generate an optimized plan", 0)>>
BudgetRangeError == "Time budget must be between 15 and 180 minutes"
RateRangeError == "Win rate must be between 30% and 80%"

\* Faulty variant: the win rate is checked before the time budget
HookValidationRateFirst(inputs) ==
  IF Len(inputs.quests) = 0 THEN "empty"
  ELSE IF inputs.winRate < 3 \/ inputs.winRate > 8 THEN "rate"
  ELSE IF inputs.timeBudget < 15 \/ inputs.timeBudget > 180 THEN "budget"
  ELSE "ok"

\* generatePlan: the checks before the optimization, in their order
HookValidation(inputs) ==
  IF Len(inputs.quests) = 0 THEN "empty"
  ELSE IF inputs.timeBudget < 15 \/ inputs.timeBudget > 180 THEN "budget"
  ELSE IF inputs.winRate < 3 \/ inputs.winRate > 8 THEN "rate"
  ELSE "ok"

\* generatePlan: the state after its setState calls up to the first return
\* or the await
StateAfterValidation(prev, verdict) ==
  CASE verdict = "empty" ->
         [plan |-> NoPlan, isLoading |-> FALSE, error |-> "",
          warnings |-> AddSomeQuests]
    [] verdict = "budget" ->
         [prev EXCEPT !.isLoading = FALSE, !.error = BudgetRangeError,
                      !.warnings = <<>>]
    [] verdict = "rate" ->
         [prev EXCEPT !.isLoading = FALSE, !.error = RateRangeError,
                      !.warnings = <<>>]
    [] verdict = "ok" ->
         [prev EXCEPT !.isLoading = TRUE, !.error = ""]

\* generatePlan: the state after optimizePlan returned result
StateAfterOptimize(prev, res) ==
  IF res.success /\ res.plan # NoPlan
  THEN [plan |-> res.plan, isLoading |-> FALSE, error |-> "",
        warnings |-> res.warnings]
  ELSE [plan |-> NoPlan, isLoading |-> FALSE,
        error |-> IF res.error # "" THEN res.error
                  ELSE "Failed to generate plan",
        warnings |-> res.warnings]

\* abortControllerRef.current.abort(): the signal of every earlier
\* generation is aborted
Aborted(generations) ==
  {[g EXCEPT !.aborted = TRUE] : g \in generations}

\* generatePlan from its call to its first return or to the await
generatePlan(inputs, by) ==
  /\ trace.generations < MaxGenerations
  /\ abortController' = abortController + 1
  /\ \E verdict \in {HookValidation(inputs)} :
       /\ state' = StateAfterValidation(state, verdict)
       /\ inFlight' =
            Aborted(inFlight) \cup
              (IF verdict = "ok"
               THEN {[id |-> abortController + 1, inputs |-> inputs,
                      aborted |-> FALSE]}
               ELSE {})
  /\ trace' = [trace EXCEPT
                 !.generations = @ + 1,
                 !.debounced = IF by = "timer" THEN @ + 1 ELSE @,
                 !.immediate = IF by = "timer" THEN @ ELSE @ + 1]

\* The component mounts: the effect arms the debounce timer
Mount(inputs) ==
  /\ mounted = "no"
  /\ mounted' = "yes"
  /\ props' = inputs
  /\ debounceTimeout' = [armed |-> TRUE, inputs |-> inputs]
  /\ elapsed' = 0
  /\ UNCHANGED <<state, abortController, inFlight, trace>>
  /\ UNCHANGED <<sessionVars, evVars, storageVars>>

\* A render with changed inputs: the effect's cleanup clears the timer and
\* the effect arms a new one
InputChange(inputs) ==
  /\ mounted = "yes"
  /\ inputs # props
  /\ trace.changes < MaxChanges
  /\ props' = inputs
  /\ debounceTimeout' = [armed |-> TRUE, inputs |-> inputs]
  /\ elapsed' = 0
  /\ trace' = [trace EXCEPT
                 !.changes = @ + 1, !.debounced = 0, !.immediate = 0,
                 !.callsSinceChange = 0,
                 !.overlap = @ \/ (\E g \in inFlight : ~g.aborted)]
  /\ UNCHANGED <<mounted, state, abortController, inFlight>>
  /\ UNCHANGED <<sessionVars, evVars, storageVars>>

\* Time passes
Advance ==
  /\ mounted = "yes"
  /\ elapsed < DebounceMs
  /\ elapsed' = Min(DebounceMs, elapsed + AdvanceMs)
  /\ UNCHANGED <<mounted, props, state, debounceTimeout, abortController,
                 inFlight, trace>>
  /\ UNCHANGED <<sessionVars, evVars, storageVars>>

\* Faulty variant: the timer may fire as soon as it is armed
TimerDueAtOnce(timer, ms) == timer.armed

\* The debounce timer is pending and its delay has passed
TimerDue(timer, ms) == timer.armed /\ ms >= DebounceMs

\* The debounce timer fires
DebounceFires ==
  /\ mounted = "yes"
  /\ TimerDue(debounceTimeout, elapsed)
  /\ debounceTimeout' = [debounceTimeout EXCEPT !.armed = FALSE]
  /\ generatePlan(debounceTimeout.inputs, "timer")
  /\ UNCHANGED <<mounted, props, elapsed>>
  /\ UNCHANGED <<sessionVars, evVars, storageVars>>

triggerImmediateGeneration ==
  /\ mounted = "yes"
  /\ debounceTimeout' = [debounceTimeout EXCEPT !.armed = FALSE]
  /\ generatePlan(props, "immediate")
  /\ UNCHANGED <<mounted, props, elapsed>>
  /\ UNCHANGED <<sessionVars, evVars, storageVars>>

\* generatePlan after the await, its signal aborted: it returns
ResumeAborted(g) ==
  /\ g \in inFlight
  /\ g.aborted
  /\ inFlight' = inFlight \ {g}
  /\ UNCHANGED <<mounted, props, state, debounceTimeout, abortController,
                 elapsed, trace>>
  /\ UNCHANGED <<sessionVars, evVars, storageVars>>

\* generatePlan after the await: optimizePlan runs and its result is stored
ResumeOptimize(g) ==
  /\ g \in inFlight
  /\ ~g.aborted
  /\ inFlight' = inFlight \ {g}
  /\ state' = StateAfterOptimize(state, OptimizeTable[g.inputs])
  /\ trace' = [trace EXCEPT !.callsSinceChange = @ + 1]
  /\ UNCHANGED <<mounted, props, debounceTimeout, abortController, elapsed>>
  /\ UNCHANGED <<sessionVars, evVars, storageVars>>

\* The cleanup on unmount, when a timer or a generation is pending
Unmount ==
  /\ mounted = "yes"
  /\ debounceTimeout.armed \/ inFlight # {}
  /\ mounted' = "unmounted"
  /\ debounceTimeout' = [debounceTimeout EXCEPT !.armed = FALSE]
  /\ inFlight' = Aborted(inFlight)
  /\ UNCHANGED <<props, state, abortController, elapsed, trace>>
  /\ UNCHANGED <<sessionVars, evVars, storageVars>>

NextHook ==
  \/ \E inputs \in HookInputs : Mount(inputs)
  \/ \E inputs \in HookInputs : InputChange(inputs)
  \/ Advance
  \/ DebounceFires
  \/ triggerImmediateGeneration
  \/ \E g \in inFlight : ResumeAborted(g)
  \/ \E g \in inFlight : ResumeOptimize(g)
  \/ Unmount

SpecHook == Init /\ [][NextHook]_vars

\* Some generation has finished its await during this step
Resumed(g) == g \in inFlight /\ g \notin inFlight'

\* The hook is mounted with no timer pending and no generation in flight,
\* after at least two generations: the last one was started for props
HookSettled ==
  /\ mounted = "yes"
  /\ inFlight = {}
  /\ ~debounceTimeout.armed
  /\ trace.generations >= 2

\* What optimizePlan returns for the newest inputs: its plan or none
NewestPlan ==
  IF OptimizeTable[props].success THEN OptimizeTable[props].plan ELSE NoPlan

\* A generation that resumes after a newer one has started leaves the
\* hook state as it is.
SupersededGenerationNeverWrites ==
  [][\A g \in inFlight :
       (Resumed(g) /\ g.id # abortController) => state' = state]_vars

\* Unless the newest inputs fail a range check of the hook, the plan in the
\* settled state is the newest generation's.
NewestPlanUnlessRangeError ==
  (HookSettled /\ HookValidation(props) \notin {"budget", "rate"}) =>
    state.plan = NewestPlan

\* C18 as stated: when inputs changed while a generation was in flight,
\* then once the generations have settled state.plan is the result of the
\* generation started for the newest inputs.
C18_NewestResultInState ==
  (HookSettled /\ trace.overlap) => state.plan = NewestPlan

\* optimizePlan is called during this step
OptimizeStep == trace'.callsSinceChange = trace.callsSinceChange + 1

\* The debounce timer starts a generation during this step
TimerStartsGeneration == trace'.debounced = trace.debounced + 1

\* No generation has started since the latest input change
NoneSinceChange == trace.debounced + trace.immediate = 0

\* The hook is mounted with no timer pending and no generation in flight
HookQuiet == mounted = "yes" /\ inFlight = {} /\ ~debounceTimeout.armed

GenerationStarts == trace'.generations = trace.generations + 1

\* The inputs generatePlan is called with during this step
StartedInputs ==
  IF TimerStartsGeneration THEN debounceTimeout.inputs ELSE props

EmptyList(inputs) == Len(inputs.quests) = 0
BudgetOutOfRange(inputs) == inputs.timeBudget < 15 \/ inputs.timeBudget > 180
RateOutOfRange(inputs) == inputs.winRate < 3 \/ inputs.winRate > 8

\* The generation started during this step has returned without reaching
\* the await before optimizePlan, and the state is no longer loading
ReturnsBeforeOptimize ==
  /\ \A g \in inFlight' : g.id # abortController'
  /\ state'.isLoading = FALSE

\* C20 as stated: a generation that fires with an empty quest list, a time
\* budget outside [15,180] or a win rate outside [0.3,0.8] does not call
\* optimizePlan and leaves isLoading false; for an empty list it sets plan
\* to null with the 'Add some quests' warning, for an out-of-range budget
\* the budget range error, for an out-of-range win rate the win-rate range
\* error.
C20_InvalidInputsRejected ==
  [][GenerationStarts =>
       /\ (\/ EmptyList(StartedInputs)
           \/ BudgetOutOfRange(StartedInputs)
           \/ RateOutOfRange(StartedInputs)) => ReturnsBeforeOptimize
       /\ EmptyList(StartedInputs) =>
            state'.plan = NoPlan /\ state'.warnings = AddSomeQuests
       /\ BudgetOutOfRange(StartedInputs) => state'.error = BudgetRangeError
       /\ RateOutOfRange(StartedInputs) => state'.error = RateRangeError]_vars

\* C20 amended: such a generation does not call optimizePlan and leaves
\* isLoading false, and the first failing check alone decides the outcome:
\* an empty list gives plan null, no error and the 'Add some quests'
\* warning whatever the budget and the win rate are; otherwise an
\* out-of-range budget gives the budget range error whatever the win rate
\* is; otherwise an out-of-range win rate gives the win-rate range error.
\* The range errors clear the warnings and leave plan as it was. Every
\* optimizePlan call is made with a non-empty list and values in range.
C20_FirstFailingCheckDecides ==
  /\ [][GenerationStarts =>
          /\ (\/ EmptyList(StartedInputs)
              \/ BudgetOutOfRange(StartedInputs)
              \/ RateOutOfRange(StartedInputs)) => ReturnsBeforeOptimize
          /\ EmptyList(StartedInputs) =>
               /\ state'.plan = NoPlan
               /\ state'.warnings = AddSomeQuests
               /\ state'.error = ""
          /\ (~EmptyList(StartedInputs) /\ BudgetOutOfRange(StartedInputs)) =>
               /\ state'.error = BudgetRangeError
               /\ state'.warnings = <<>>
               /\ state'.plan = state.plan
          /\ (/\ ~EmptyList(StartedInputs)
              /\ ~BudgetOutOfRange(StartedInputs)
              /\ RateOutOfRange(StartedInputs)) =>
               /\ state'.error = RateRangeError
               /\ state'.warnings = <<>>
               /\ state'.plan = state.plan]_vars
  /\ [][OptimizeStep =>
          \A g \in inFlight :
            Resumed(g) =>
              /\ ~EmptyList(g.inputs)
              /\ ~BudgetOutOfRange(g.inputs)
              /\ ~RateOutOfRange(g.inputs)]_vars

\* The timer has started a generation for a non-empty list whose budget and
\* win rate are both out of range: the budget error is set, nothing is
\* loading or in flight, and optimizePlan was not called
C20_Witness ==
  /\ mounted = "yes"
  /\ trace.debounced = 1
  /\ ~EmptyList(props)
  /\ BudgetOutOfRange(props)
  /\ RateOutOfRange(props)
  /\ state.error = BudgetRangeError
  /\ ~state.isLoading
  /\ inFlight = {}
  /\ trace.callsSinceChange = 0

\* ---------------------------------------------------------------------
\* The greedy loop as a state machine (Accumulating is pc = "loop", Done is
\* pc = "returned")
\* ---------------------------------------------------------------------

\* The optimizer with its loop, which is synchronous code, never stopping
\* between passes: while pc = "loop" a step is eventually taken.  In
\* SpecOptimizer the steps possible at pc = "loop" are LoopIterate and
\* LoopExit and one of them is always possible, so this is weak fairness of
\* LoopIterate \/ LoopExit with its ENABLED written out.
SpecOptimizerFair ==
  SpecOptimizer /\ ([]<>(pc # "loop") \/ []<><<pc = "loop">>_vars)

\* This iteration emits one step and lowers the remaining time by the
\* step's minutes, at least one average game length of the step's queue
EmitsStep ==
  /\ pc' = "loop"
  /\ Len(steps') = Len(steps) + 1
  /\ SubSeq(steps', 1, Len(steps)) = steps
  /\ remainingTime' = remainingTime - steps'[Len(steps')].estimatedMinutes
  /\ remainingTime - remainingTime' >=
       getQueueRewardsWithFallback(steps'[Len(steps')].queue).averageGameLength
  /\ remainingTime' >= 0

\* This iteration leaves the loop without emitting a step
MovesToDone ==
  /\ pc' = "returned"
  /\ UNCHANGED <<steps, remainingTime, questProgress, completedQuests>>

\* A new optimizePlan call (from recalculatePlan) starts its own loop
NewGeneration == pc' = "loop" /\ steps' = <<>>

\* Done is terminal: unless a new call starts its own loop, a step taken
\* after Done emits nothing and leaves the loop's variables as they are.
DoneIsTerminal ==
  [][(pc = "returned" /\ ~NewGeneration) =>
       UNCHANGED <<steps, remainingTime, questProgress, completedQuests>>]_vars

\* C21: for every valid input the greedy loop terminates: each iteration in
\* Accumulating either emits a step that lowers the remaining time by at
\* least one average game length or moves to Done, and Done is reached;
\* Done is terminal: no step is emitted afterwards and remaining time,
\* tracked progress and the completed set do not change.
C21_LoopTerminates ==
  /\ [][pc = "loop" => EmitsStep \/ MovesToDone]_vars
  /\ DoneIsTerminal
  /\ [](pc = "returned" =>
          /\ remainingTime >= 0
          /\ result.success => result.plan.steps = steps)
  /\ (pc = "loop") ~> (pc = "returned")

\* Done has been reached after three emitted steps, each of which lowered
\* the remaining time, with time left over
C21_Witness ==
  /\ pc = "returned"
  /\ result.success
  /\ Len(steps) = 3
  /\ remainingTime > 0
  /\ remainingTime = args.timeBudget - SumMinutes(steps, 1)

\* The queues findBestQueueOption evaluates in the current call
AllowedQueues ==
  {AvailableQueues(UserSettings(args.settings).preferredQueues)[i] :
     i \in DOMAIN AvailableQueues(UserSettings(args.settings).preferredQueues)}

\* One game of no allowed queue fits into t minutes
BelowCheapestStep(t) ==
  \A q \in AllowedQueues :
    t < getQueueRewardsWithFallback(q).averageGameLength

AllTrackedCompleted == DOMAIN questProgress \subseteq completedQuests

\* The loop of a successful optimizePlan call is in Done
LoopDone == pc = "returned" /\ lastOp = "optimizePlan" /\ result.success

\* Done is only ever entered out of time or with every quest completed;
\* the count of steps is never what ends the loop.
DoneWithoutStepCount ==
  LoopDone => BelowCheapestStep(remainingTime) \/ AllTrackedCompleted

\* C22: the optimizer is in Done only when the remaining time is less than
\* the cheapest available step, or every tracked quest is completed, or 10
\* steps have been emitted; a returned plan with fewer than 10 steps and
\* some tracked quest not completed leaves unused time smaller than the
\* average game minutes of every allowed queue.
C22_DoneOnlyWhenExhausted ==
  LoopDone =>
    /\ \/ BelowCheapestStep(remainingTime)
       \/ AllTrackedCompleted
       \/ Len(steps) = StepCap
    /\ (/\ Len(result.plan.steps) < StepCap
        /\ \E id \in DOMAIN questProgress :
             id \notin result.plan.questsCompleted) =>
         BelowCheapestStep(result.plan.timeBudget
                           - result.plan.totalEstimatedMinutes)

\* A plan of fewer than 10 steps that leaves a quest incomplete and some
\* minutes unused, fewer than a game of any allowed queue takes
C22_Witness ==
  /\ LoopDone
  /\ Len(result.plan.steps) \in 2..(StepCap - 1)
  /\ ~AllTrackedCompleted
  /\ result.plan.timeBudget - result.plan.totalEstimatedMinutes > 0
  /\ BelowCheapestStep(remainingTime)

\* The time remaining immediately before step k of the loop is emitted
RemainingBefore(k) ==
  args.timeBudget - SumMinutes(SubSeq(steps, 1, k - 1), 1)

\* generateOptimizedPlan is running or has returned its plan
InGeneration ==
  \/ pc = "loop"
  \/ pc = "returned" /\ lastOp = "optimizePlan" /\ result.success

\* C23: every emitted step has targetGames in {1, 2, 3}, estimatedMinutes
\* equal to targetGames times the chosen queue's average game minutes, and
\* estimatedMinutes no greater than the time remaining immediately before
\* the step is emitted.
C23_StepOfOneToThreeGamesFits ==
  InGeneration =>
    /\ remainingTime = RemainingBefore(Len(steps) + 1)
    /\ \A k \in DOMAIN steps :
         /\ steps[k].targetGames \in {1, 2, 3}
         /\ steps[k].estimatedMinutes =
              steps[k].targetGames
                * getQueueRewardsWithFallback(steps[k].queue).averageGameLength
         /\ steps[k].estimatedMinutes <= RemainingBefore(k)

\* A three-game step, and a later one-game step that takes all the time that
\* remained before it
C23_Witness ==
  /\ InGeneration
  /\ \E j, k \in DOMAIN steps :
       /\ j < k
       /\ steps[j].targetGames = 3
       /\ steps[k].targetGames = 1
       /\ steps[k].estimatedMinutes = RemainingBefore(k)

\* The quest of the tracked list with this id
TrackedQuest(id) ==
  planQuests[CHOOSE k \in DOMAIN planQuests : planQuests[k].id = id]

\* C24: during plan generation each quest's tracked remaining progress
\* starts at quest.remaining, never increases and never goes below zero, and
\* a quest id is in the returned plan's questsCompleted if and only if its
\* tracked remaining reached zero.
C24_TrackedProgressAndCompletion ==
  /\ [](InGeneration =>
          /\ DOMAIN questProgress = {planQuests[k].id : k \in DOMAIN planQuests}
          /\ \A id \in DOMAIN questProgress :
               /\ questProgress[id] >= 0
               /\ questProgress[id] <= TrackedQuest(id).remaining * 100
               /\ steps = <<>> =>
                    questProgress[id] = TrackedQuest(id).remaining * 100
               /\ id \in completedQuests <=> questProgress[id] = 0
          /\ pc = "returned" =>
               result.plan.questsCompleted = completedQuests)
  /\ [][(pc = "loop" /\ InGeneration') =>
          \A id \in DOMAIN questProgress :
            /\ id \in DOMAIN questProgress'
            /\ questProgress'[id] <= questProgress[id]]_vars

\* A returned plan of several steps with one tracked quest brought to zero
\* and completed, and another lowered but still open and not completed
C24_Witness ==
  /\ LoopDone
  /\ Len(steps) >= 2
  /\ \E i, j \in DOMAIN questProgress :
       /\ questProgress[i] = 0
       /\ i \in result.plan.questsCompleted
       /\ questProgress[j] > 0
       /\ questProgress[j] < TrackedQuest(j).remaining * 100
       /\ j \notin result.plan.questsCompleted

\* ---------------------------------------------------------------------
\* The urgency multiplier
\* ---------------------------------------------------------------------

\* The same quests with no quest near expiry
NotNearExpiry(quests) ==
  [i \in DOMAIN quests |-> [quests[i] EXCEPT !.expiresInDays = 7]]

\* The option of queueType in the current iteration
OptionOf(queueType) ==
  evaluateQueueOption(queueType, planQuests, questProgress, completedQuests,
                      remainingTime, args.winRate)

\* The option it would be if no contributing quest were near expiry
OptionNotNearExpiry(queueType) ==
  evaluateQueueOption(queueType, NotNearExpiry(planQuests), questProgress,
                      completedQuests, remainingTime, args.winRate)

\* C25 as stated: an option whose contributing quests include one expiring
\* within 1 or 2 days (multiplier 2.0 or 1.5) has a priority at least the
\* priority it would have with no contributing quest near expiry, also for
\* queues whose net value is negative.
C25_UrgencyIsBoost ==
  pc = "loop" =>
    \A q \in AllowedQueues :
      \E o \in {OptionOf(q)} : \E plain \in {OptionNotNearExpiry(q)} :
        (o.queueType # "none" /\ o.urgencyMultiplier > 2) =>
          /\ plain.urgencyMultiplier = 2
          /\ SCmp(o.priority, plain.priority) >= 0

\* ---------------------------------------------------------------------
\* StorageManager: the stored plan list (specification SpecStorage)
\* ---------------------------------------------------------------------

\* savePlan: .slice(0, 10)
MaxStoredPlans == 10

\* A plan as the storage code sees it: its id, its updatedAt (a Date, in
\* ms) and whether it passes OptimizedPlanSchema
StoragePlan(id, updatedAt, valid) ==
  [id |-> id, updatedAt |-> updatedAt, valid |-> valid]

\* JSON.stringify: a Date becomes its ISO string
Serialize(plans) ==
  [i \in DOMAIN plans |->
     [id |-> plans[i].id, updatedAt |-> [iso |-> plans[i].updatedAt]]]

\* loadPlans: JSON.parse, date strings back to Date objects, schema check
loadPlans ==
  [i \in DOMAIN stored |->
     StoragePlan(stored[i].id, stored[i].updatedAt.iso, TRUE)]

\* existingPlans.filter(p => p.id !== plan.id), from position i
RECURSIVE WithoutId(_, _, _)
WithoutId(plans, id, i) ==
  IF i > Len(plans) THEN <<>>
  ELSE (IF plans[i].id # id THEN <<plans[i]>> ELSE <<>>)
       \o WithoutId(plans, id, i + 1)

\* Faulty variant: ascending order, the oldest plans first
RECURSIVE InsertByUpdatedAtAscending(_, _)
InsertByUpdatedAtAscending(sorted, thePlan) ==
  IF sorted = <<>> THEN <<thePlan>>
  ELSE IF thePlan.updatedAt < sorted[1].updatedAt
       THEN <<thePlan>> \o sorted
       ELSE <<sorted[1]>> \o InsertByUpdatedAtAscending(Tail(sorted), thePlan)

\* thePlan put into a list sorted by b.updatedAt - a.updatedAt, after the
\* plans it does not precede (the sort is stable)
RECURSIVE InsertByUpdatedAt(_, _)
InsertByUpdatedAt(sorted, thePlan) ==
  IF sorted = <<>> THEN <<thePlan>>
  ELSE IF thePlan.updatedAt > sorted[1].updatedAt
       THEN <<thePlan>> \o sorted
       ELSE <<sorted[1]>> \o InsertByUpdatedAt(Tail(sorted), thePlan)

\* .sort((a, b) => b.updatedAt.getTime() - a.updatedAt.getTime()) on the
\* first n plans
RECURSIVE SortByUpdatedAt(_, _)
SortByUpdatedAt(plans, n) ==
  IF n = 0 THEN <<>>
  ELSE InsertByUpdatedAt(SortByUpdatedAt(plans, n - 1), plans[n])

\* savePlan: the list it hands to savePlans
PlansToSave(existingPlans, thePlan) ==
  SubSeq(SortByUpdatedAt(Append(WithoutId(existingPlans, thePlan.id, 1), thePlan),
                         Len(WithoutId(existingPlans, thePlan.id, 1)) + 1),
         1,
         Min(MaxStoredPlans, Len(WithoutId(existingPlans, thePlan.id, 1)) + 1))

\* savePlans(plans): the list is validated, serialized and stored as given;
\* an invalid plan makes it throw and leaves the stored item as it was
savePlans(plans) ==
  /\ saves < MaxSaves
  /\ saves' = saves + 1
  /\ \E ok \in {\A i \in DOMAIN plans : plans[i].valid} :
       /\ stored' = IF ok THEN Serialize(plans) ELSE stored
       /\ lastSave' = [op |-> "savePlans", plan |-> NoSave.plan,
                       plans |-> plans, before |-> loadPlans,
                       completed |-> ok]
  /\ UNCHANGED <<sessionVars, evVars, hookVars>>

\* savePlan(plan)
savePlan(thePlan) ==
  /\ saves < MaxSaves
  /\ saves' = saves + 1
  /\ \E sortedPlans \in {PlansToSave(loadPlans, thePlan)} :
     \E ok \in {\A i \in DOMAIN sortedPlans : sortedPlans[i].valid} :
       /\ stored' = IF ok THEN Serialize(sortedPlans) ELSE stored
       /\ lastSave' = [op |-> "savePlan", plan |-> thePlan, plans |-> <<>>,
                       before |-> loadPlans, completed |-> ok]
  /\ UNCHANGED <<sessionVars, evVars, hookVars>>

\* clearData(): the item is removed
clearData ==
  /\ saves < MaxSaves
  /\ saves' = saves + 1
  /\ stored' = <<>>
  /\ lastSave' = [NoSave EXCEPT !.op = "clearData", !.before = loadPlans,
                                !.completed = TRUE]
  /\ UNCHANGED <<sessionVars, evVars, hookVars>>

\* Plans a caller saves one at a time: an id already stored or new, older
\* or newer than what is stored
SavedPlans ==
  {StoragePlan(id, t, TRUE) : id \in {1, 10, 12}, t \in {1, 4}}
    \cup {StoragePlan(12, 4, FALSE)}

\* Plan i of a list saved at once
ListedPlan(i) == StoragePlan(i, 1 + (i % 3), TRUE)

\* Lists a caller saves at once: ten plans, eleven, two with one id, one
\* plan, and a list with an invalid plan
SavedLists ==
  {[i \in 1..10 |-> ListedPlan(i)],
   [i \in 1..11 |-> ListedPlan(i)],
   <<StoragePlan(1, 2, TRUE), StoragePlan(1, 3, TRUE)>>,
   <<ListedPlan(2)>>,
   <<ListedPlan(2), StoragePlan(3, 1, FALSE)>>}

NextStorage ==
  \/ \E thePlan \in SavedPlans : savePlan(thePlan)
  \/ \E plans \in SavedLists : savePlans(plans)
  \/ clearData

SpecStorage == Init /\ [][NextStorage]_vars

\* savePlan(p) has completed
SavePlanCompleted == lastSave.op = "savePlan" /\ lastSave.completed

\* The previously stored plans without any copy carrying p's id, and p
Candidates ==
  Append(WithoutId(lastSave.before, lastSave.plan.id, 1), lastSave.plan)

\* How many times plan x occurs in the list
Occurrences(plans, x) == Cardinality({i \in DOMAIN plans : plans[i] = x})

PairwiseDistinctIds(plans) ==
  \A i, j \in DOMAIN plans : plans[i].id = plans[j].id => i = j

\* kept is made of the up-to-10 plans of candidates with the most recent
\* updatedAt: it takes its plans from candidates, as many as fit, and no
\* plan left out is more recent than a plan kept
MostRecentOf(kept, candidates) ==
  /\ Len(kept) = Min(MaxStoredPlans, Len(candidates))
  /\ \A i \in DOMAIN kept :
       Occurrences(kept, kept[i]) <= Occurrences(candidates, kept[i])
  /\ \A j \in DOMAIN candidates :
       Occurrences(kept, candidates[j]) < Occurrences(candidates, candidates[j])
         => \A i \in DOMAIN kept :
              kept[i].updatedAt >= candidates[j].updatedAt

\* C26 as stated: after savePlan(p) completes the stored list holds at most
\* 10 plans with pairwise distinct ids and consists of the up-to-10 plans
\* with the most recent updatedAt among the previously stored plans (without
\* any earlier copy carrying p's id) and p.
C26_TenMostRecentDistinct ==
  SavePlanCompleted =>
    /\ Len(loadPlans) <= MaxStoredPlans
    /\ PairwiseDistinctIds(loadPlans)
    /\ MostRecentOf(loadPlans, Candidates)

\* C26 amended: the ids are pairwise distinct when those of the previously
\* stored plans were; the rest holds as stated, and the list is in order of
\* updatedAt, most recent first.
C26_TenMostRecentDistinctIfWereDistinct ==
  SavePlanCompleted =>
    /\ Len(loadPlans) <= MaxStoredPlans
    /\ PairwiseDistinctIds(lastSave.before) => PairwiseDistinctIds(loadPlans)
    /\ MostRecentOf(loadPlans, Candidates)
    /\ \A i, j \in DOMAIN loadPlans :
         i < j => loadPlans[i].updatedAt >= loadPlans[j].updatedAt

\* Ten distinct plans were stored and a plan with a new id, more recent than
\* some of them, has been saved: it is stored and one of the ten is gone
C26_Witness ==
  /\ SavePlanCompleted
  /\ Len(lastSave.before) = MaxStoredPlans
  /\ PairwiseDistinctIds(lastSave.before)
  /\ \A i \in DOMAIN lastSave.before :
       lastSave.before[i].id # lastSave.plan.id
  /\ Len(loadPlans) = MaxStoredPlans
  /\ \E i \in DOMAIN loadPlans : loadPlans[i] = lastSave.plan
  /\ \E i \in DOMAIN lastSave.before :
       Occurrences(loadPlans, lastSave.before[i]) = 0

\* ---------------------------------------------------------------------
\* Feasible quests and the plan's questsCompleted
\* ---------------------------------------------------------------------

\* optimizePlan has succeeded on a list with exactly one active quest, which
\* the pre-check found completable within timeBudget in an allowed queue
SoleActiveQuestFeasible ==
  /\ Succeeded
  /\ Len(ActiveQuests(args.quests)) = 1
  /\ canQuestBeCompletedInTime(ActiveQuests(args.quests)[1], args.timeBudget,
                               args.winRate,
                               UserSettings(args.settings).preferredQueues)

\* C27: if optimizePlan succeeds for an input whose only active quest is
\* feasible by the pre-check, that quest's id is in the returned plan's
\* questsCompleted.
C27_SoleFeasibleQuestCompleted ==
  SoleActiveQuestFeasible =>
    ActiveQuests(args.quests)[1].id \in result.plan.questsCompleted

\* ---------------------------------------------------------------------
\* Reported progress of a step and the tracked remaining progress
\* ---------------------------------------------------------------------

\* The progressAmount step s reports for quest id (0 if it lists none)
RECURSIVE ReportedIn(_, _, _)
ReportedIn(s, id, e) ==
  IF e > Len(s.questProgress) THEN 0
  ELSE (IF s.questProgress[e].questId = id
        THEN s.questProgress[e].progressAmount ELSE 0)
       + ReportedIn(s, id, e + 1)

\* The amounts reported for quest id, summed over steps k..Len(stepSeq)
RECURSIVE SumReported(_, _, _)
SumReported(stepSeq, id, k) ==
  IF k > Len(stepSeq) THEN 0
  ELSE ReportedIn(stepSeq[k], id, 1) + SumReported(stepSeq, id, k + 1)

\* C28: for every step and every quest it lists, the progressAmount reported
\* in the step equals the amount by which the tracked remaining of that quest
\* is reduced when the step is emitted; hence, for each quest, the reported
\* amounts summed over all steps of a plan never exceed quest.remaining.
C28_ReportedEqualsTrackedReduction ==
  /\ [][(pc = "loop" /\ EmitsStep) =>
          \A e \in DOMAIN steps'[Len(steps')].questProgress :
            \E entry \in {steps'[Len(steps')].questProgress[e]} :
              entry.progressAmount =
                questProgress[entry.questId] - questProgress'[entry.questId]]_vars
  /\ [](LoopDone =>
          \A id \in DOMAIN questProgress :
            SumReported(result.plan.steps, id, 1)
              <= TrackedQuest(id).remaining * 100)

\* ---------------------------------------------------------------------
\* Quest expiry and the selected queues
\* ---------------------------------------------------------------------

\* The same quests, all expiring in d days
AllExpiringIn(quests, d) ==
  [i \in DOMAIN quests |-> [quests[i] EXCEPT !.expiresInDays = d]]

\* The supplied quests with other values of expiresInDays: with none near
\* expiry (multiplier 1.0 throughout) if one was, and with all expiring
\* within a day (2.0 throughout) if none was
ExpiryChanged(quests) ==
  IF \E i \in DOMAIN quests : quests[i].expiresInDays <= 2
  THEN NotNearExpiry(quests)
  ELSE AllExpiringIn(quests, 1)

\* (queue, targetGames, estimatedMinutes) of every step, in order
StepShape(stepSeq) ==
  [k \in DOMAIN stepSeq |->
     <<stepSeq[k].queue, stepSeq[k].targetGames, stepSeq[k].estimatedMinutes>>]

\* The urgency multiplier evaluateQueueOption computes for queueType in the
\* current iteration
MultiplierOf(queueType) ==
  UrgencyMultiplier(QuestProgressData(queueType, planQuests, questProgress,
                                      completedQuests, args.winRate, 1))

\* optimizePlan has returned on inputs that pass the schema
ReturnedOnSchemaValid ==
  /\ pc = "returned"
  /\ lastOp = "optimizePlan"
  /\ ValidationIssues(args.quests, args.timeBudget, args.winRate) = {}

\* C29: with the shipped reward table and a win rate in [0.3, 0.8], changing
\* only the expiresInDays of the supplied quests never changes the sequence
\* of steps (queue, targetGames, estimatedMinutes) optimizePlan returns; in
\* every iteration all candidate queues receive the same urgency multiplier.
C29_ExpiryDoesNotChangeSteps ==
  /\ ReturnedOnSchemaValid =>
       \E other \in {optimizePlanResult(ExpiryChanged(args.quests),
                                        args.timeBudget, args.winRate,
                                        args.settings, 1)} :
         /\ other.success = result.success
         /\ StepShape(other.plan.steps) = StepShape(result.plan.steps)
  /\ pc = "loop" =>
       \A q1, q2 \in AllowedQueues : MultiplierOf(q1) = MultiplierOf(q2)

\* A returned plan of several steps for two quests, one expiring within a
\* day, whose steps are those returned when no quest is near expiry, and
\* one of whose first-iteration candidates had the multiplier 2.0
C29_Witness ==
  /\ ReturnedOnSchemaValid
  /\ result.success
  /\ Len(result.plan.steps) >= 2
  /\ Len(args.quests) = 2
  /\ \E i \in DOMAIN args.quests : args.quests[i].expiresInDays <= 1
  /\ \E q \in AllowedQueues :
       evaluateQueueOption(q, planQuests, [i \in DOMAIN questProgress |->
                             TrackedQuest(i).remaining * 100], {},
                           args.timeBudget, args.winRate).urgencyMultiplier = 4
  /\ StepShape(optimizePlanResult(NotNearExpiry(args.quests), args.timeBudget,
                                  args.winRate, args.settings, 1).plan.steps)
       = StepShape(result.plan.steps)

\* ---------------------------------------------------------------------
\* The hook's error and plan
\* ---------------------------------------------------------------------

\* C30: the state of useDebouncedPlanGeneration never holds a non-null error
\* together with a non-null plan: whenever a generation ends in an error
\* (range validation failure or optimizer failure), state.plan is null
\* afterwards.
C30_NoPlanBesideError ==
  state.error # "" => state.plan = NoPlan

\* An error that is not one of the hook's two range errors comes from
\* optimizePlan and stands beside no plan.
OptimizerErrorClearsPlan ==
  state.error \notin {"", BudgetRangeError, RateRangeError} =>
    state.plan = NoPlan

====
